---- MODULE Spec2Model ----
(***************************************************************************)
(* State-machine model of praisonaiagents/process/process.py: the task     *)
(* registry, the Fallback Selector (_find_next_not_started_task) and the   *)
(* workflow driver (Process.workflow), which is a generator: it suspends   *)
(* at each yield and the caller mutates the yielded task before resuming.  *)
(***************************************************************************)
EXTENDS Integers, Sequences, FiniteSets, TLC

\* ------------------------------------------------------------------ bounds
\* Largest number of author-declared tasks in an initial registry.
MaxTasks == 2
\* Largest max_iter a Process is constructed with.
MaxIter == 2
\* Largest number of rows / lines of a loop input file.
MaxRows == 2
LongIter == 6
SeqTasks == 3

\* ------------------------------------------------------- program constants
DEFAULT_RETRY_LIMIT == 3

\* ----------------------------------------------------------------- strings
\* str.lower() on one character, over the letters the model's texts use.
LowerChar(c) ==
    CASE c = "A" -> "a"
      [] c = "B" -> "b"
      [] c = "C" -> "c"
      [] c = "D" -> "d"
      [] c = "E" -> "e"
      [] c = "L" -> "l"
      [] c = "N" -> "n"
      [] c = "O" -> "o"
      [] c = "P" -> "p"
      [] c = "R" -> "r"
      [] c = "S" -> "s"
      [] c = "T" -> "t"
      [] c = "X" -> "x"
      [] c = "Y" -> "y"
      [] c = "Z" -> "z"
      [] OTHER -> c

RECURSIVE Lower(_)
\* str.lower(): character by character.
Lower(s) ==
    IF Len(s) = 0 THEN ""
    ELSE LowerChar(SubSeq(s, 1, 1)) \o Lower(SubSeq(s, 2, Len(s)))

\* str.startswith(p)
StartsWith(s, p) ==
    /\ Len(p) <= Len(s)
    /\ SubSeq(s, 1, Len(p)) = p

\* str.endswith(p)
EndsWith(s, p) ==
    /\ Len(p) <= Len(s)
    /\ SubSeq(s, Len(s) - Len(p) + 1, Len(s)) = p

\* p in s (substring test); the navigator does not use it, claims about
\* "contains" are stated with it.
Contains(s, p) ==
    \E i \in 1..(Len(s) - Len(p) + 1) : SubSeq(s, i, i + Len(p) - 1) = p

Digit(d) ==
    CASE d = 0 -> "0" [] d = 1 -> "1" [] d = 2 -> "2" [] d = 3 -> "3"
      [] d = 4 -> "4" [] d = 5 -> "5" [] d = 6 -> "6" [] d = 7 -> "7"
      [] d = 8 -> "8" [] OTHER -> "9"

RECURSIVE Str(_)
\* f"{n}" for a natural number: its decimal digits.
Str(n) == IF n < 10 THEN Digit(n) ELSE Str(n \div 10) \o Digit(n % 10)

\* --------------------------------------------------------------- optionals
\* A Python Optional is a sequence of length at most one; None is empty.
None == << >>
Some(x) == << x >>
IsNone(o) == Len(o) = 0

\* A condition value is a string or a list of strings (isinstance(tasks, list)).
CondStr(s) == [is_list |-> FALSE, items |-> << s >>]
CondList(l) == [is_list |-> TRUE, items |-> l]
CondEntry(k, v) == [key |-> k, value |-> v]

\* TaskOutput: raw text and the optional structured payload's decision field.
Result(raw, decision) == [raw |-> raw, pydantic |-> decision]

\* --------------------------------------------------------------- the state
VARIABLES
    tasks,               \* self.tasks: the registry in dict order; a task's id is its index
    task_retry_counter,  \* self.task_retry_counter, by task id (absent = 0)
    max_iter,            \* self.max_iter
    fs,                  \* the file system: path -> content of a loop input source
    pc,                  \* where the generator stands
    current_iter,        \* workflow local: iterations started
    current_task,        \* workflow local: id of current_task, 0 for None
    start_task,          \* workflow local: id of start_task
    visited_tasks,       \* workflow local: set of ids
    loop_data,           \* workflow local: loop-progress map (set of keys)
    declared,            \* the registry the Process was constructed with
    yielded,             \* the ids the generator has yielded, in order
    exit_met,            \* an exit condition was met in some navigation of this run
    nav_from,            \* the task the last navigation started from (0: none yet)
    via_condition,       \* the task that navigation resolved through a condition (0: none)
    selector_failed,     \* ids the Fallback Selector has marked 'failed'
    returned,            \* how often the Fallback Selector has returned each id
    seq_next,            \* sequential: registry position the for loop looks at next
    manager_task,        \* hierarchical: id of manager_task in the registry (0: not yet)
    completed_count,     \* hierarchical local
    total_tasks,         \* hierarchical local
    selected_task_id,    \* hierarchical local: the id of the current round (0: none)
    task_agent,          \* the name of each task's agent, by task id
    instructions,        \* hierarchical: what the decision service answered in the
                         \* last round, as a sequence of at most one record
    earlier_runs         \* how many workflow() generators of this Process have
                         \* finished before the present one

vars == << tasks, task_retry_counter, max_iter, fs, pc, current_iter, current_task,
           start_task, visited_tasks, loop_data, declared, yielded, exit_met, nav_from,
           via_condition, selector_failed, returned,
           seq_next, manager_task, completed_count, total_tasks, selected_task_id,
           task_agent, instructions, earlier_runs >>

\* The state of the sequential and hierarchical drivers, and the count of
\* earlier runs: what a step of one workflow() run leaves alone.
mode_vars == << seq_next, manager_task, completed_count, total_tasks, selected_task_id,
                task_agent, instructions, earlier_runs >>

Statuses == {"not started", "in progress", "completed", "failed"}

\* Task(...) as the driver sees it.
Task(name, task_type, status, next_tasks, condition, is_start, input_file, description) ==
    [ name |-> name, task_type |-> task_type, status |-> status,
      next_tasks |-> next_tasks, condition |-> condition, result |-> None,
      is_start |-> is_start, input_file |-> input_file,
      subtasks_created |-> FALSE, previous_tasks |-> << >>,
      description |-> description, context |-> << >> ]

\* next((t for t in self.tasks.values() if t.name == name), None): id or 0
FindByName(reg, name) ==
    LET hits == {i \in DOMAIN reg : reg[i].name = name}
    IN  IF hits = {} THEN 0 ELSE CHOOSE i \in hits : \A j \in hits : i <= j

\* ------------------------------------------------------- Fallback Selector
\* self.task_retry_counter.get(task_candidate.id, 0) < Process.DEFAULT_RETRY_LIMIT
\* Variant with the comparison off by one (<= where the code has <).
RetryAllowedOnceMore(count) == count <= DEFAULT_RETRY_LIMIT

RetryAllowed(count) == count < DEFAULT_RETRY_LIMIT

\* Variant that leaves an exhausted task as it is.
ExhaustedStatusKept == "not started"

\* The status the selector writes on a 'not started' task whose retries are used up.
ExhaustedStatus == "failed"

RECURSIVE SweepStopsAtExhausted(_, _, _)
\* Variant whose pass ends at the first task it marks 'failed'.
SweepStopsAtExhausted(reg, ctr, i) ==
    IF i > Len(reg) THEN [tasks |-> reg, counter |-> ctr, ret |-> 0]
    ELSE IF reg[i].status = "not started"
         THEN IF RetryAllowed(ctr[i])
              THEN [tasks |-> reg, counter |-> [ctr EXCEPT ![i] = @ + 1], ret |-> i]
              ELSE [tasks |-> [reg EXCEPT ![i].status = ExhaustedStatus],
                    counter |-> ctr, ret |-> 0]
         ELSE SweepStopsAtExhausted(reg, ctr, i + 1)

RECURSIVE Sweep(_, _, _)
\* One pass of `for task_candidate in self.tasks.values()` from position i on:
\* the first eligible 'not started' task is counted and returned at once; a
\* 'not started' task met before it with no retry left is marked 'failed'.
Sweep(reg, ctr, i) ==
    IF i > Len(reg) THEN [tasks |-> reg, counter |-> ctr, ret |-> 0]
    ELSE IF reg[i].status = "not started"
         THEN IF RetryAllowed(ctr[i])
              THEN [tasks |-> reg, counter |-> [ctr EXCEPT ![i] = @ + 1], ret |-> i]
              ELSE Sweep([reg EXCEPT ![i].status = ExhaustedStatus], ctr, i + 1)
         ELSE Sweep(reg, ctr, i + 1)

RECURSIVE FallbackAttempts(_, _, _)
\* while fallback_attempts < DEFAULT_RETRY_LIMIT and not temp_current_task
FallbackAttempts(reg, ctr, fallback_attempts) ==
    IF fallback_attempts < DEFAULT_RETRY_LIMIT
    THEN LET s == Sweep(reg, ctr, 1)
         IN  IF s.ret # 0 THEN s
             ELSE FallbackAttempts(s.tasks, s.counter, fallback_attempts + 1)
    ELSE [tasks |-> reg, counter |-> ctr, ret |-> 0]

\* Process._find_next_not_started_task
FindNextNotStartedTask(reg, ctr) == FallbackAttempts(reg, ctr, 0)

\* The ids one selector call marks 'failed'.
MarkedFailed(reg, after) ==
    {i \in DOMAIN reg : reg[i].status # "failed" /\ after[i].status = "failed"}

\* ----------------------------------------------------------- loop sources
\* A loop input source is unreadable (open() raises) or holds rows; a row is
\* the list of fields csv.reader returns for it ([] for a blank line).
Unreadable == [readable |-> FALSE, rows |-> << >>]
FileOf(rows) == [readable |-> TRUE, rows |-> rows]

\* os.path.splitext(path)[1].lower() == ".csv"
IsCsv(path) == EndsWith(Lower(path), ".csv")

RECURSIVE Strip(_)
\* str.strip() for blanks
Strip(s) ==
    IF Len(s) = 0 THEN s
    ELSE IF SubSeq(s, 1, 1) = " " THEN Strip(SubSeq(s, 2, Len(s)))
    ELSE IF SubSeq(s, Len(s), Len(s)) = " " THEN Strip(SubSeq(s, 1, Len(s) - 1))
    ELSE s

RECURSIVE JoinFields(_, _)
\* ",".join(field.strip() for field in row[from:])
JoinFields(row, from) ==
    IF from > Len(row) THEN ""
    ELSE IF from = Len(row) THEN Strip(row[from])
    ELSE Strip(row[from]) \o "," \o JoinFields(row, from + 1)

\* f.read().splitlines() of the same source read as plain text
LinesOf(rows) == [i \in 1..Len(rows) |-> JoinFields(rows[i], 1)]

\* Author-time CSV rows (workflow start task):
\* the text of one row, "" when the row is skipped.
AuthorRowDesc(row) ==
    IF Len(row) = 0 THEN ""
    ELSE IF Len(row) > 1
         THEN "Question: " \o Strip(row[1]) \o "\nAnswer: " \o JoinFields(row, 2)
         ELSE Strip(row[1])

RECURSIVE AuthorCsvItems(_, _, _)
\* The subtasks the author-time CSV branch creates: task_count numbers only
\* the rows that are kept.
AuthorCsvItems(rows, i, task_count) ==
    IF i > Len(rows) THEN << >>
    ELSE IF AuthorRowDesc(rows[i]) = "" THEN AuthorCsvItems(rows, i + 1, task_count)
    ELSE << [idx |-> task_count + 1, desc |-> AuthorRowDesc(rows[i])] >>
         \o AuthorCsvItems(rows, i + 1, task_count + 1)

RECURSIVE RuntimeCsvItems(_, _)
\* The subtasks the runtime CSV branch creates: `if row:` keeps a row, and
\* the name carries enumerate's index i + 1.
RuntimeCsvItems(rows, i) ==
    IF i > Len(rows) THEN << >>
    ELSE IF Len(rows[i]) = 0 THEN RuntimeCsvItems(rows, i + 1)
    ELSE << [idx |-> i, desc |-> rows[i][1]] >> \o RuntimeCsvItems(rows, i + 1)

\* The subtasks a line-delimited source gives: one per line, none skipped.
TextItems(rows) == [i \in 1..Len(rows) |-> [idx |-> i, desc |-> Strip(LinesOf(rows)[i])]]

\* d[key] = value on a dict kept in insertion order
DictSet(cond, key, value) ==
    IF \E i \in DOMAIN cond : cond[i].key = key
    THEN [i \in DOMAIN cond |-> IF cond[i].key = key THEN CondEntry(key, value) ELSE cond[i]]
    ELSE Append(cond, CondEntry(key, value))

\* f"{parent.description}\n{task_desc}" if parent.description else task_desc
SubtaskDescription(parent, task_desc) == Append(parent.description, task_desc)

\* A row_task built as the line-delimited branches build it: a plain
\* task that inherits nothing from the loop task.
AuthorCsvTaskAsPlain(parent, item) ==
    Task(parent.name \o "_" \o Str(item.idx), "task", "not started",
         << >>,
         << CondEntry("complete", CondList(<< "next" >>)),
            CondEntry("retry", CondList(<< "current" >>)) >>,
         item.idx = 1, "", SubtaskDescription(parent, item.desc))

\* The row_task of the author-time CSV branch.
AuthorCsvTask(parent, item) ==
    Task(parent.name \o "_" \o Str(item.idx), "decision", "not started",
         parent.next_tasks,
         << CondEntry("done", CondList(IF parent.next_tasks # << >>
                                       THEN parent.next_tasks ELSE << "next" >>)),
            CondEntry("retry", CondList(<< "current" >>)),
            CondEntry("exit", CondList(<< >>)) >>,
         item.idx = 1, "", SubtaskDescription(parent, item.desc))

\* The row_task of the other three branches (author-time text, runtime CSV and text).
PlainRowTask(parent, item) ==
    Task(parent.name \o "_" \o Str(item.idx), "task", "not started",
         << >>,
         << CondEntry("complete", CondList(<< "next" >>)),
            CondEntry("retry", CondList(<< "current" >>)) >>,
         item.idx = 1, "", SubtaskDescription(parent, item.desc))

RECURSIVE ChainSubtasks(_, _, _, _, _, _, _)
\* for ... : self.tasks[row_task.id] = row_task; new_tasks.append(row_task);
\* the previous row_task is rewired to the new one under chain_key.
ChainSubtasks(reg, parent, items, k, previous_task, new_tasks, author_csv) ==
    IF k > Len(items) THEN [tasks |-> reg, new_tasks |-> new_tasks]
    ELSE LET row_task == IF author_csv THEN AuthorCsvTask(parent, items[k])
                         ELSE PlainRowTask(parent, items[k])
             chain_key == IF author_csv THEN "done" ELSE "complete"
             added == Append(reg, row_task)
             id == Len(added)
             wired == IF previous_task = 0 THEN added
                      ELSE [added EXCEPT
                              ![previous_task].next_tasks = << row_task.name >>,
                              ![previous_task].condition =
                                  DictSet(@, chain_key, CondList(<< row_task.name >>))]
         IN  ChainSubtasks(wired, parent, items, k + 1, id, Append(new_tasks, id), author_csv)

\* ------------------------------------------------- workflow: initialisation
RECURSIVE BuildPrevious(_, _, _)
\* for task in tasks: for next_task_name in task.next_tasks:
\*     next_task.previous_tasks.append(task.name)   (when the name resolves)
BuildPrevious(reg, i, j) ==
    IF i > Len(reg) THEN reg
    ELSE IF j > Len(reg[i].next_tasks) THEN BuildPrevious(reg, i + 1, 1)
    ELSE LET next_task == FindByName(reg, reg[i].next_tasks[j])
         IN  IF next_task = 0 THEN BuildPrevious(reg, i, j + 1)
             ELSE BuildPrevious(
                    [reg EXCEPT ![next_task].previous_tasks = Append(@, reg[i].name)],
                    i, j + 1)

\* Variant that lets a later marked task replace an earlier one.
FindLastStartTask(reg) ==
    LET marked == {i \in DOMAIN reg : reg[i].is_start}
    IN  IF marked = {} THEN 1 ELSE CHOOSE i \in marked : \A j \in marked : j <= i

\* The first task marked is_start, else list(self.tasks.values())[0].
FindStartTask(reg) ==
    LET marked == {i \in DOMAIN reg : reg[i].is_start}
    IN  IF marked = {} THEN 1 ELSE CHOOSE i \in marked : \A j \in marked : i <= j

\* if loop and not input_file: input_file = "tasks.csv"
DefaultInputFile(reg, id) ==
    IF reg[id].task_type = "loop" /\ reg[id].input_file = ""
    THEN [reg EXCEPT ![id].input_file = "tasks.csv"]
    ELSE reg

\* The try block of the start task: read the source and create the subtasks;
\* an unreadable source raises inside the try and nothing is created.
ExpandStartTask(reg, sid, files) ==
    LET parent == reg[sid]
        src == files[parent.input_file]
    IN  IF ~src.readable THEN [tasks |-> reg, new_tasks |-> << >>]
        ELSE IF IsCsv(parent.input_file)
             THEN ChainSubtasks(reg, parent, AuthorCsvItems(src.rows, 1, 0), 1, 0, << >>, TRUE)
             ELSE ChainSubtasks(reg, parent, TextItems(src.rows), 1, 0, << >>, FALSE)

\* workflow() up to the while loop: [tasks, start_task]
WorkflowSetup(reg, files) ==
    LET linked == BuildPrevious(reg, 1, 1)
        sid == FindStartTask(linked)
        named == DefaultInputFile(linked, sid)
    IN  IF named[sid].task_type = "loop" /\ named[sid].input_file # ""
        THEN LET e == ExpandStartTask(named, sid, files)
             IN  [tasks |-> e.tasks,
                  start_task |-> IF e.new_tasks # << >> THEN e.new_tasks[1] ELSE sid]
        ELSE [tasks |-> named, start_task |-> sid]

\* Variants of the loop bound: one iteration late, one iteration early.
ExceedsMaxIterLate(iter, limit) == iter > limit + 1

ExceedsMaxIterEarly(iter, limit) == iter >= limit

\* ------------------------------------------------- workflow: one iteration
\* if current_iter > self.max_iter: break
ExceedsMaxIter(iter, limit) == iter > limit

\* Runtime expansion of a loop task met in the loop.
RuntimeExpand(reg, cur, sid, files) ==
    IF /\ reg[cur].task_type = "loop"
       /\ cur # sid
       /\ ~reg[cur].subtasks_created
    THEN LET named == DefaultInputFile(reg, cur)
             parent == named[cur]
             src == files[parent.input_file]
         IN  IF ~src.readable THEN named
             ELSE LET items == IF IsCsv(parent.input_file)
                               THEN RuntimeCsvItems(src.rows, 1)
                               ELSE TextItems(src.rows)
                      e == ChainSubtasks(named, parent, items, 1, 0, << >>, FALSE)
                  IN  IF e.new_tasks # << >>
                      THEN [e.tasks EXCEPT
                              ![cur].next_tasks = << e.tasks[e.new_tasks[1]].name >>,
                              ![cur].subtasks_created = TRUE]
                      ELSE e.tasks
    ELSE reg

RECURSIVE PreviousLines(_, _, _)
\* context += f"\n{prev_name}: {prev_task.result.raw}" for each previous task with a result
PreviousLines(reg, prev, i) ==
    IF i > Len(prev) THEN ""
    ELSE LET prev_task == FindByName(reg, prev[i])
         IN  (IF prev_task # 0 /\ ~IsNone(reg[prev_task].result)
              THEN "\n" \o prev[i] \o ": " \o reg[prev_task].result[1].raw
              ELSE "")
             \o PreviousLines(reg, prev, i + 1)

RECURSIVE ContextLines(_, _, _, _)
\* the same for the declared context tasks, the task itself left out
ContextLines(reg, ctx, i, own_name) ==
    IF i > Len(ctx) THEN ""
    ELSE (IF ~IsNone(reg[ctx[i]].result) /\ reg[ctx[i]].name # own_name
          THEN "\n" \o reg[ctx[i]].name \o ": " \o reg[ctx[i]].result[1].raw
          ELSE "")
         \o ContextLines(reg, ctx, i + 1, own_name)

\* Add context from previous tasks to description
AppendContext(reg, cur) ==
    IF reg[cur].previous_tasks # << >> \/ reg[cur].context # << >>
    THEN [reg EXCEPT ![cur].description =
            Append(@, "\nInput data from previous tasks:"
                      \o PreviousLines(reg, reg[cur].previous_tasks, 1)
                      \o ContextLines(reg, reg[cur].context, 1, reg[cur].name))]
    ELSE reg

\* [t for t in self.tasks.values() if t.name.startswith(current_task.name + "_")]
SubtasksOf(reg, cur) ==
    {i \in DOMAIN reg : StartsWith(reg[i].name, reg[cur].name \o "_")}

\* What the loop branch leaves: registry, counters, current_task, raised.
Branch(reg, ctr, cur, raised) ==
    [tasks |-> reg, counter |-> ctr, current |-> cur, raised |-> raised]

\* current_task = self._find_next_not_started_task() inside the loop branch
BranchFallback(f) == Branch(f.tasks, f.counter, f.ret, FALSE)

\* current_task.status = "completed"
Completed(reg, cur) == [reg EXCEPT ![cur].status = "completed"]

\* subtasks and all(st.status == "completed" for st in subtasks)
AllSubtasksCompleted(reg, cur) ==
    /\ SubtasksOf(reg, cur) # {}
    /\ \A i \in SubtasksOf(reg, cur) : reg[i].status = "completed"

\* Variant that lets every completed task be reset.
ResettableAlways(reg, task_id) == TRUE

\* The branch `if current_task.task_type == "loop"`: the loop task is not
\* yielded. raised: self._create_loop_subtasks does not exist on Process.
LoopBranch(reg, ctr, cur) ==
    IF reg[cur].subtasks_created
    THEN IF AllSubtasksCompleted(reg, cur)
         THEN IF reg[cur].next_tasks # << >>
              THEN Branch(Completed(reg, cur), ctr,
                          FindByName(reg, reg[cur].next_tasks[1]), FALSE)
              ELSE BranchFallback(FindNextNotStartedTask(Completed(reg, cur), ctr))
         ELSE Branch(reg, ctr, cur, FALSE)
    ELSE IF reg[cur].input_file # ""
         THEN Branch(reg, ctr, cur, TRUE)
         ELSE IF reg[cur].next_tasks # << >>
              THEN Branch(Completed(reg, cur), ctr,
                          FindByName(reg, reg[cur].next_tasks[1]), FALSE)
              ELSE Branch(Completed(reg, cur), ctr, 0, FALSE)

\* task_type not in ["loop", "decision"] and not any(t.task_type == "loop" and
\* subtask_name.startswith(t.name + "_") for t in self.tasks.values())
Resettable(reg, task_id) ==
    /\ reg[task_id].task_type \notin {"loop", "decision"}
    /\ ~\E i \in DOMAIN reg :
           /\ reg[i].task_type = "loop"
           /\ StartsWith(reg[task_id].name, reg[i].name \o "_")

\* Variant that never resets a status.
ResetNothing(reg, task_id) == reg

\* Reset completed task to "not started" so it can run again
ResetCompleted(reg, task_id) ==
    IF reg[task_id].status = "completed" /\ Resettable(reg, task_id)
    THEN [reg EXCEPT ![task_id].status = "not started"]
    ELSE reg

\* Variant that marks the result of every task that has one.
LoopProgressAlways(reg, cur, ld) ==
    IF ~IsNone(reg[cur].result)
    THEN [reg EXCEPT ![cur].result = Some([@[1] EXCEPT !.raw = @ \o "\ndone"])]
    ELSE reg

\* Handle loop progression: only for a loop task with an entry in loop_data.
LoopProgress(reg, cur, ld) ==
    IF reg[cur].task_type = "loop" /\ ("loop_" \o reg[cur].name) \in DOMAIN ld
       /\ ~IsNone(reg[cur].result)
    THEN [reg EXCEPT ![cur].result =
            Some([@[1] EXCEPT !.raw = @ \o (IF ld["loop_" \o reg[cur].name].remaining > 0
                                           THEN "\nmore" ELSE "\ndone")])]
    ELSE reg

\* Variant that reads the raw text even when a structured decision is present.
DecisionStrRaw(result) == Lower(result.raw)

\* decision_str: the structured decision when present, else the raw text; lower-cased
DecisionStr(result) ==
    IF ~IsNone(result.pydantic) THEN Lower(result.pydantic[1]) ELSE Lower(result.raw)

\* Variant that matches a key the label merely contains.
KeyContained(condition, decision_str) == Contains(decision_str, Lower(condition))

\* if condition.lower() == decision_str
KeyMatches(condition, decision_str) == Lower(condition) = decision_str

\* The first entry of condition.items() whose key matches, 0 when none does.
FirstMatch(cond, decision_str) ==
    LET hits == {i \in DOMAIN cond : KeyMatches(cond[i].key, decision_str)}
    IN  IF hits = {} THEN 0 ELSE CHOOSE i \in hits : \A j \in hits : i <= j

\* if not task_value or task_value == "exit"
IsExitValue(task_value) == task_value = "" \/ task_value = "exit"

\* Variant in which the condition table is never consulted.
UsesNoConditions(t) == FALSE

\* current_task.result and current_task.task_type in ["decision", "loop"]
UsesConditions(t) == ~IsNone(t.result) /\ t.task_type \in {"decision", "loop"}

\* "Determine next task based on result" down to `current_task = next_task`:
\* matched is the condition entry honoured (0: none), raised is tasks[0] on an
\* empty list, exit the exit condition, next_task the task resolved (0: None).
Navigate(reg, cur) ==
    LET t == reg[cur]
        m == IF UsesConditions(t) THEN FirstMatch(t.condition, DecisionStr(t.result[1])) ELSE 0
        raised == m # 0 /\ t.condition[m].value.items = << >>
        task_value == t.condition[m].value.items[1]
        exit == m # 0 /\ ~raised /\ IsExitValue(task_value)
        by_condition == IF m # 0 /\ ~raised /\ ~exit THEN FindByName(reg, task_value) ELSE 0
        by_next == IF by_condition = 0 /\ ~exit /\ t.next_tasks # << >>
                   THEN FindByName(reg, t.next_tasks[1]) ELSE by_condition
    IN  [matched |-> m, raised |-> raised, exit |-> exit,
         via |-> by_condition, next_task |-> by_next]

\* The outcome of an iteration: the registry and counters it leaves, the new
\* current_task (0: None), whether it raised or met an exit condition, the task
\* it navigated from and the one a condition resolved to (0: none), and the
\* task the Fallback Selector returned (0: not asked, or None).
Outcome(reg, ctr, cur, raised, exit, from, via, selected) ==
    [tasks |-> reg, counter |-> ctr, current |-> cur, raised |-> raised,
     exit |-> exit, from |-> from, via |-> via, selected |-> selected]

\* current_task = self._find_next_not_started_task(), as an outcome
FallbackOutcome(f, exit, from) ==
    Outcome(f.tasks, f.counter, f.ret, FALSE, exit, from, 0, f.ret)

\* Variant that ends the run when navigation resolves no task, without
\* asking the Fallback Selector.
AdvanceEndsOnGap(reg, ctr, cur, nav) ==
    IF nav.raised THEN Outcome(reg, ctr, cur, TRUE, FALSE, cur, 0, 0)
    ELSE Outcome(reg, ctr, nav.next_task, FALSE, nav.exit, cur, nav.via, 0)

\* Variant that refuses to go back to the task it navigates from.
AdvanceSkippingSelf(reg, ctr, cur, nav) ==
    IF nav.raised THEN Outcome(reg, ctr, cur, TRUE, FALSE, cur, 0, 0)
    ELSE IF nav.next_task # 0 /\ nav.next_task # cur
         THEN Outcome(reg, ctr, nav.next_task, FALSE, FALSE, cur, nav.via, 0)
         ELSE FallbackOutcome(FindNextNotStartedTask(reg, ctr), nav.exit, cur)

\* current_task = next_task; if not current_task: the Fallback Selector
Advance(reg, ctr, cur, nav) ==
    IF nav.raised THEN Outcome(reg, ctr, cur, TRUE, FALSE, cur, 0, 0)
    ELSE IF nav.next_task # 0
         THEN Outcome(reg, ctr, nav.next_task, FALSE, FALSE, cur, nav.via, 0)
         ELSE FallbackOutcome(FindNextNotStartedTask(reg, ctr), nav.exit, cur)

\* Loop progression, then navigation from current_task.
NavigateFrom(reg, ctr, cur, ld) ==
    Advance(LoopProgress(reg, cur, ld), ctr, cur, Navigate(LoopProgress(reg, cur, ld), cur))

\* The rest of an iteration after the yield (or after the loop branch):
\* reset, loop progression, navigation, fallback. task_id is the task the
\* iteration started with, cur the current_task (0: None, and
\* current_task.task_type then raises).
FinishIteration(reg, ctr, cur, task_id, ld) ==
    IF cur = 0
    THEN Outcome(ResetCompleted(reg, task_id), ctr, 0, TRUE, FALSE, 0, 0, 0)
    ELSE NavigateFrom(ResetCompleted(reg, task_id), ctr, cur, ld)

\* ------------------------------------------------------------------ actions
\* The first next() on the generator: workflow() down to the while loop.
\* The registry is not empty, so current_task is a task.
\* The counters follow the registry when it grows (absent = 0).
Grown(ctr, reg) == [i \in DOMAIN reg |-> IF i \in DOMAIN ctr THEN ctr[i] ELSE 0]

\* The locals workflow() sets before its loop.
SetUp(w) ==
    /\ tasks' = w.tasks
    /\ task_retry_counter' = Grown(task_retry_counter, w.tasks)
    /\ start_task' = w.start_task
    /\ current_task' = w.start_task

Start ==
    /\ pc = "init"
    /\ SetUp(WorkflowSetup(tasks, fs))
    /\ current_iter' = 0
    /\ visited_tasks' = {}
    /\ loop_data' = << >>
    /\ pc' = "head"
    /\ returned' = Grown(returned, tasks')
    /\ UNCHANGED << max_iter, fs, declared, yielded, exit_met, nav_from, via_condition,
                    selector_failed >>
    /\ UNCHANGED mode_vars

\* while current_task: current_iter += 1; if current_iter > self.max_iter: break
MaxIterReached ==
    /\ pc = "head"
    /\ ExceedsMaxIter(current_iter + 1, max_iter)
    /\ current_iter' = current_iter + 1
    /\ pc' = "done"
    /\ UNCHANGED << tasks, task_retry_counter, max_iter, fs, current_task, start_task,
                    visited_tasks, loop_data, declared, yielded, exit_met, nav_from,
                    via_condition, selector_failed, returned >>
    /\ UNCHANGED mode_vars

\* The registry as the iteration's task sees it: runtime expansion, then context.
Prepared(reg, cur, sid, files) == AppendContext(RuntimeExpand(reg, cur, sid, files), cur)

\* Variant that yields the current task whatever its type.
YieldAnyTask ==
    /\ pc = "head"
    /\ ~ExceedsMaxIter(current_iter + 1, max_iter)
    /\ current_iter' = current_iter + 1
    /\ tasks' = Prepared(tasks, current_task, start_task, fs)
    /\ yielded' = Append(yielded, current_task)
    /\ pc' = "yielded"
    /\ UNCHANGED << task_retry_counter, max_iter, fs, current_task, start_task,
                    visited_tasks, loop_data, declared, exit_met, nav_from, via_condition,
                    selector_failed, returned >>
    /\ UNCHANGED mode_vars

\* An iteration on a task that is not a loop task: up to `yield task_id`.
YieldTask ==
    /\ pc = "head"
    /\ ~ExceedsMaxIter(current_iter + 1, max_iter)
    /\ tasks[current_task].task_type # "loop"
    /\ current_iter' = current_iter + 1
    /\ tasks' = Prepared(tasks, current_task, start_task, fs)
    /\ yielded' = Append(yielded, current_task)
    /\ pc' = "yielded"
    /\ UNCHANGED << task_retry_counter, max_iter, fs, current_task, start_task,
                    visited_tasks, loop_data, declared, exit_met, nav_from, via_condition,
                    selector_failed, returned >>
    /\ UNCHANGED mode_vars

\* The iteration of a loop task after its loop branch b.
AfterLoopBranch(b, task_id, ld) ==
    IF b.raised THEN Outcome(b.tasks, b.counter, b.current, TRUE, FALSE, 0, 0, 0)
    ELSE FinishIteration(b.tasks, b.counter, b.current, task_id, ld)

\* The whole iteration of loop task cur on the prepared registry.
LoopIteration(reg, ctr, cur, ld) == AfterLoopBranch(LoopBranch(reg, ctr, cur), cur, ld)

\* The counts of selector returns after one more return of id (0: none).
Counted(counts, reg, id) ==
    [i \in DOMAIN reg |-> (IF i \in DOMAIN counts THEN counts[i] ELSE 0)
                          + (IF i = id THEN 1 ELSE 0)]

\* What outcome r leaves in the Process and the locals; before is the
\* registry it was computed from, resumed_from the task whose yield was
\* resumed (0 when nothing was yielded): visited_tasks.add(task_id) runs on
\* resumption, before the navigation may discard the task again.
Leaves(r, before, resumed_from) ==
    /\ tasks' = r.tasks
    /\ task_retry_counter' = r.counter
    /\ current_task' = r.current
    /\ visited_tasks' = (visited_tasks \cup (IF resumed_from # 0 THEN {resumed_from} ELSE {}))
                            \ (IF r.via # 0 /\ r.via = r.from THEN {r.from} ELSE {})
    /\ exit_met' = (exit_met \/ r.exit)
    /\ nav_from' = r.from
    /\ via_condition' = r.via
    /\ selector_failed' = selector_failed \cup MarkedFailed(before, r.tasks)
    /\ returned' = Counted(returned, r.tasks, r.selected)

\* The generator's state after an iteration with outcome r: it raised, left
\* the loop with no current task, or stands at the loop head again.
EndIteration(r, before, resumed_from) ==
    /\ Leaves(r, before, resumed_from)
    /\ pc' = IF r.raised THEN "raised" ELSE IF r.current = 0 THEN "done" ELSE "head"

\* A whole iteration on a loop task: nothing is yielded.
VisitLoopTask ==
    /\ pc = "head"
    /\ ~ExceedsMaxIter(current_iter + 1, max_iter)
    /\ tasks[current_task].task_type = "loop"
    /\ current_iter' = current_iter + 1
    /\ EndIteration(
          LoopIteration(Prepared(tasks, current_task, start_task, fs),
                        Grown(task_retry_counter,
                              Prepared(tasks, current_task, start_task, fs)),
                        current_task, loop_data),
          tasks, 0)
    /\ UNCHANGED << max_iter, fs, start_task, loop_data, declared, yielded >>
    /\ UNCHANGED mode_vars

\* What the caller may leave in the yielded task's result.
CallerResults ==
    { Result("Done", None), Result("all done", None), Result("Exit", None),
      Result("Done", Some("Retry")), Result("Done", Some("none")) }

\* The caller, between the yield and the next resumption: it may write any
\* status and any result to the yielded task.
CallerExecutes ==
    /\ pc = "yielded"
    /\ \E st \in Statuses, res \in {None} \cup {Some(r) : r \in CallerResults} :
          tasks' = [tasks EXCEPT ![current_task].status = st,
                                 ![current_task].result = IF IsNone(res) THEN @ ELSE res]
    /\ pc' = "resumed"
    /\ UNCHANGED << task_retry_counter, max_iter, fs, current_iter, current_task,
                    start_task, visited_tasks, loop_data, declared, yielded, exit_met,
                    nav_from, via_condition, selector_failed, returned >>
    /\ UNCHANGED mode_vars

\* The generator resumed after a yield: the rest of the iteration.
Resume ==
    /\ pc = "resumed"
    /\ EndIteration(
          FinishIteration(tasks, task_retry_counter, current_task, current_task, loop_data),
          tasks, current_task)
    /\ UNCHANGED << max_iter, fs, current_iter, start_task, loop_data, declared,
                    yielded >>
    /\ UNCHANGED mode_vars

Next ==
    \/ Start
    \/ MaxIterReached
    \/ YieldTask
    \/ VisitLoopTask
    \/ CallerExecutes
    \/ Resume

\* ------------------------------------------------------------ initial states
\* Names of the author-declared tasks, by registry position.
TaskName(i) == << "A", "B", "C", "D", "E" >>[i]

\* The name of the task after i in a registry of n tasks, cyclically.
OtherName(n, i) == TaskName((i % n) + 1)

\* A name no task of the registry carries.
NoSuchTask == "Z"

\* The shapes of a task declared at position i of n: type, successors,
\* condition table and loop source.
Shape(task_type, next_tasks, condition, input_file) ==
    [task_type |-> task_type, next_tasks |-> next_tasks, condition |-> condition,
     input_file |-> input_file]

RegularShapes(n, i) ==
    { Shape("task", nx, << >>, "") :
        nx \in { << >>, << OtherName(n, i) >>, << NoSuchTask >> } }

DecisionShapes(n, i) ==
    { Shape("decision", << OtherName(n, i) >>,
            << CondEntry("done", CondStr(OtherName(n, i))),
               CondEntry("retry", CondList(<< TaskName(i) >>)) >>, ""),
      Shape("decision", << OtherName(n, i) >>,
            << CondEntry("Done", CondList(<< TaskName(i) >>)),
               CondEntry("retry", CondStr("exit")) >>, ""),
      Shape("decision", << TaskName(i) >>,
            << CondEntry("done", CondStr("")),
               CondEntry("retry", CondList(<< OtherName(n, i) >>)) >>, ""),
      Shape("decision", << >>,
            << CondEntry("done", CondList(<< NoSuchTask >>)),
               CondEntry("retry", CondList(<< "exit" >>)) >>, "") }

LoopShapes(n, i) ==
    { Shape("loop", << >>, << >>, ""),
      Shape("loop", << OtherName(n, i) >>, << >>, "tasks.csv"),
      Shape("loop", << OtherName(n, i) >>, << >>, "items.txt") }

\* A task that is not a loop task.
PlainShapes(n, i) == RegularShapes(n, i) \cup DecisionShapes(n, i)

\* The tasks declared beside a loop task.
CompanionShapes(n, i) ==
    { Shape("task", << >>, << >>, ""),
      Shape("task", << OtherName(n, i) >>, << >>, ""),
      Shape("decision", << OtherName(n, i) >>,
            << CondEntry("done", CondStr(OtherName(n, i))),
               CondEntry("retry", CondList(<< TaskName(i) >>)) >>, "") }

\* The registries of n tasks: no loop task, or one loop task and companions.
ShapeSeqs(n) ==
    { sh \in [1..n -> UNION {PlainShapes(n, i) \cup LoopShapes(n, i) : i \in 1..n}] :
        \/ \A i \in 1..n : sh[i] \in PlainShapes(n, i)
        \/ \E k \in 1..n :
              /\ sh[k] \in LoopShapes(n, k)
              /\ \A i \in (1..n) \ {k} : sh[i] \in CompanionShapes(n, i) }

\* The rows a loop source may hold: a blank line, or a question with its answer.
RowKinds == { << >>, << "q", "a" >> }

\* A loop source: unreadable, or MaxRows rows.
Contents == {Unreadable} \cup {FileOf(rows) : rows \in [1..MaxRows -> RowKinds]}

Paths == {"tasks.csv", "items.txt"}

\* A Process just constructed on an author-declared registry: n tasks in the
\* same initial status, the tasks of the set marked being is_start, no results yet.
InitRegistry(n, shape, status, marked) ==
    [i \in 1..n |->
        Task(TaskName(i), shape[i].task_type, status, shape[i].next_tasks,
             shape[i].condition, i \in marked, shape[i].input_file, << "do" >>)]

\* The agents of the Process, by name.
Agents == {"a1", "a2"}

\* The sequential and hierarchical drivers not running: every task has the
\* first agent.
ModeIdle ==
    /\ seq_next = 0
    /\ manager_task = 0
    /\ completed_count = 0
    /\ total_tasks = 0
    /\ selected_task_id = 0
    /\ task_agent = [i \in DOMAIN tasks |-> "a1"]
    /\ instructions = << >>
    /\ earlier_runs = 0

\* The locals of workflow() and the history, before the generator first runs.
NoRunYet ==
    /\ current_iter = 0
    /\ current_task = 0
    /\ start_task = 0
    /\ visited_tasks = {}
    /\ loop_data = << >>
    /\ yielded = << >>
    /\ exit_met = FALSE
    /\ nav_from = 0
    /\ via_condition = 0
    /\ selector_failed = {}
    /\ returned = [i \in DOMAIN tasks |-> 0]
    /\ declared = tasks
    /\ ModeIdle

\* workflow() not yet run.
NotStarted == pc = "init" /\ NoRunYet

\* Processes constructed on every registry of up to MaxTasks tasks, all in one
\* of the given statuses, with one of the given iteration limits; no task, the
\* last task or every task is marked is_start.
Constructed(statuses, limits) ==
    /\ \E n \in 1..MaxTasks :
         \E shape \in ShapeSeqs(n), status \in statuses,
            marked \in {{}, {n}, 1..n}, c \in Contents :
              /\ (\A i \in 1..n : shape[i].task_type # "loop") => c = Unreadable
              /\ tasks = InitRegistry(n, shape, status, marked)
              /\ task_retry_counter = [i \in 1..n |-> 0]
              /\ fs = [p \in Paths |-> c]
    /\ max_iter \in limits
    /\ NotStarted

Init == Constructed({"not started", "completed"}, 0..MaxIter)

Spec == Init /\ [][Next]_vars

\* ------------------------------------------------------------- longer runs
\* A caller that keeps to the interface: it leaves the yielded task as it is
\* (the execution failed), or completes it and stores a result.
CallerFollowsContract ==
    /\ pc = "yielded"
    /\ \/ UNCHANGED tasks
       \/ \E res \in {Result("Done", None), Result("Done", Some("Retry"))} :
             tasks' = [tasks EXCEPT ![current_task].status = "completed",
                                    ![current_task].result = Some(res)]
    /\ pc' = "resumed"
    /\ UNCHANGED << task_retry_counter, max_iter, fs, current_iter, current_task,
                    start_task, visited_tasks, loop_data, declared, yielded, exit_met,
                    nav_from, via_condition, selector_failed, returned >>
    /\ UNCHANGED mode_vars

LongNext ==
    \/ Start
    \/ MaxIterReached
    \/ YieldTask
    \/ VisitLoopTask
    \/ CallerFollowsContract
    \/ Resume

\* Runs of LongIter iterations on registries of 'not started' tasks.
LongInit == Constructed({"not started"}, {LongIter})

LongSpec == LongInit /\ [][LongNext]_vars

\* ------------------------------------------------- the Fallback Selector alone
\* The selector called on its own, as the driver calls it whenever navigation
\* finds no task.
SelectorCall ==
    /\ pc \in {"selector", "selected"}
    /\ Leaves(FallbackOutcome(FindNextNotStartedTask(tasks, task_retry_counter), FALSE, 0),
              tasks, 0)
    /\ pc' = "selected"
    /\ UNCHANGED << max_iter, fs, current_iter, start_task, loop_data, declared,
                    yielded >>
    /\ UNCHANGED mode_vars

\* Between two calls the driver or the caller writes any status to any task.
WriteStatus ==
    /\ pc \in {"selector", "selected"}
    /\ \E i \in DOMAIN tasks, st \in Statuses :
          tasks' = [tasks EXCEPT ![i].status = st]
    /\ pc' = "selector"
    /\ UNCHANGED << task_retry_counter, max_iter, fs, current_iter, current_task,
                    start_task, visited_tasks, loop_data, declared, yielded, exit_met,
                    nav_from, via_condition, selector_failed, returned >>
    /\ UNCHANGED mode_vars

SelectorNext == SelectorCall \/ WriteStatus

\* A Process on MaxTasks regular tasks in any statuses, no retry counted yet.
SelectorInit ==
    /\ \E st \in [1..MaxTasks -> Statuses] :
          tasks = [i \in 1..MaxTasks |->
                      Task(TaskName(i), "task", st[i], << >>, << >>, FALSE, "", << "do" >>)]
    /\ task_retry_counter = [i \in 1..MaxTasks |-> 0]
    /\ fs = [p \in Paths |-> Unreadable]
    /\ max_iter = 0
    /\ current_iter = 0
    /\ current_task = 0
    /\ start_task = 0
    /\ visited_tasks = {}
    /\ loop_data = << >>
    /\ yielded = << >>
    /\ exit_met = FALSE
    /\ nav_from = 0
    /\ via_condition = 0
    /\ selector_failed = {}
    /\ returned = [i \in DOMAIN tasks |-> 0]
    /\ declared = tasks
    /\ ModeIdle
    /\ pc = "selector"

SelectorSpec == SelectorInit /\ [][SelectorNext]_vars

\* ---------------------------------------------------------- sequential mode
\* Variant of the test of sequential(): it yields whatever the status.
NeedsRunAlways(status) == TRUE

\* if self.tasks[task_id].status != "completed"
NeedsRun(status) == status # "completed"

\* The first next() on the generator of sequential(): the for loop starts.
SeqStart ==
    /\ pc = "seq_init"
    /\ seq_next' = 1
    /\ pc' = "seq"
    /\ UNCHANGED << tasks, task_retry_counter, max_iter, fs, current_iter, current_task,
                    start_task, visited_tasks, loop_data, declared, yielded, exit_met,
                    nav_from, via_condition, selector_failed, returned, manager_task,
                    completed_count, total_tasks, selected_task_id, task_agent,
                    instructions, earlier_runs >>

\* One pass of `for task_id in self.tasks`: a task that needs no run is passed.
SeqSkip ==
    /\ pc = "seq"
    /\ seq_next \in DOMAIN tasks
    /\ ~NeedsRun(tasks[seq_next].status)
    /\ seq_next' = seq_next + 1
    /\ UNCHANGED << tasks, task_retry_counter, max_iter, fs, pc, current_iter,
                    current_task, start_task, visited_tasks, loop_data, declared, yielded,
                    exit_met, nav_from, via_condition, selector_failed, returned,
                    manager_task, completed_count, total_tasks, selected_task_id,
                    task_agent, instructions,
                    earlier_runs >>

\* One pass of the for loop on a task that needs a run: yield task_id.
SeqYield ==
    /\ pc = "seq"
    /\ seq_next \in DOMAIN tasks
    /\ NeedsRun(tasks[seq_next].status)
    /\ yielded' = Append(yielded, seq_next)
    /\ seq_next' = seq_next + 1
    /\ pc' = "seq_yielded"
    /\ UNCHANGED << tasks, task_retry_counter, max_iter, fs, current_iter, current_task,
                    start_task, visited_tasks, loop_data, declared, exit_met, nav_from,
                    via_condition, selector_failed, returned, manager_task,
                    completed_count, total_tasks, selected_task_id, task_agent,
                    instructions, earlier_runs >>

\* The caller, while the generator is suspended: it writes any status to any
\* task, the yielded one or another.
SeqCallerWrites ==
    /\ pc = "seq_yielded"
    /\ \E i \in DOMAIN tasks, st \in Statuses :
          tasks' = [tasks EXCEPT ![i].status = st]
    /\ UNCHANGED << task_retry_counter, max_iter, fs, pc, current_iter, current_task,
                    start_task, visited_tasks, loop_data, declared, yielded, exit_met,
                    nav_from, via_condition, selector_failed, returned, seq_next,
                    manager_task, completed_count, total_tasks, selected_task_id,
                    task_agent, instructions,
                    earlier_runs >>

\* The caller resumes the generator.
SeqResume ==
    /\ pc = "seq_yielded"
    /\ pc' = "seq"
    /\ UNCHANGED << tasks, task_retry_counter, max_iter, fs, current_iter, current_task,
                    start_task, visited_tasks, loop_data, declared, yielded, exit_met,
                    nav_from, via_condition, selector_failed, returned, seq_next,
                    manager_task, completed_count, total_tasks, selected_task_id,
                    task_agent, instructions,
                    earlier_runs >>

\* The for loop is exhausted: the generator returns.
SeqEnd ==
    /\ pc = "seq"
    /\ seq_next \notin DOMAIN tasks
    /\ pc' = "done"
    /\ UNCHANGED << tasks, task_retry_counter, max_iter, fs, current_iter, current_task,
                    start_task, visited_tasks, loop_data, declared, yielded, exit_met,
                    nav_from, via_condition, selector_failed, returned, seq_next,
                    manager_task, completed_count, total_tasks, selected_task_id,
                    task_agent, instructions,
                    earlier_runs >>

SeqNext ==
    \/ SeqStart
    \/ SeqSkip
    \/ SeqYield
    \/ SeqCallerWrites
    \/ SeqResume
    \/ SeqEnd

\* A Process on SeqTasks regular tasks in any statuses, sequential() not yet run.
SeqInit ==
    /\ \E st \in [1..SeqTasks -> Statuses] :
          tasks = [i \in 1..SeqTasks |->
                      Task(TaskName(i), "task", st[i], << >>, << >>, FALSE, "", << "do" >>)]
    /\ task_retry_counter = [i \in DOMAIN tasks |-> 0]
    /\ fs = [p \in Paths |-> Unreadable]
    /\ max_iter = 0
    /\ NoRunYet
    /\ pc = "seq_init"

SeqSpec == SeqInit /\ [][SeqNext]_vars

\* ------------------------------------------------------ hierarchical mode
\* Registry size and number of yields of the hierarchical runs.
HierTasks == 2

HierYields == 2

\* The workflow driver's variables, which hierarchical() leaves alone.
hier_unchanged == << task_retry_counter, max_iter, fs, current_iter, current_task,
                     start_task, visited_tasks, loop_data, declared, exit_met, nav_from,
                     via_condition, selector_failed, returned, seq_next, earlier_runs >>

\* What a round of the decision service can come to: the call raises (the
\* service fails, or its answer does not parse), the answer carries no
\* parsed body (message.parsed is None), or it carries ManagerInstructions.
Failure == [kind |-> "failure", task_id |-> 0, agent_name |-> "", action |-> ""]

NoParsed == [kind |-> "none", task_id |-> 0, agent_name |-> "", action |-> ""]

ManagerInstructions(task_id, agent_name, action) ==
    [kind |-> "parsed", task_id |-> task_id, agent_name |-> agent_name, action |-> action]

\* The answers drawn in a round: any id of the registry (the manager task's
\* too) or one beyond it, the agent of self.agents that no task starts with
\* or a name nobody has.
Responses(reg) ==
    {Failure, NoParsed}
      \cup {ManagerInstructions(t, a, act) :
               t \in 1..(Len(reg) + 1), a \in {"a2", "nobody"},
               act \in {"execute", "stop", "STOP"}}

\* Variant that takes only the lower-case word for a stop.
IsStopExact(action) == action = "stop"

\* action.lower() == "stop"
IsStop(action) == Lower(action) = "stop"

\* for a in self.agents: if a.name == selected_agent_name: task.agent = a; break
Reassigned(agents, task_id, agent_name) ==
    IF agent_name \in Agents THEN [agents EXCEPT ![task_id] = agent_name] ELSE agents

\* self.tasks[manager_task.id].status = "completed"
ManagerCompleted(reg, mid) == [reg EXCEPT ![mid].status = "completed"]

\* Leaving the while loop by break or by its condition: the generator ends.
HierEnds(reg, mid, agents, count, sel, out) ==
    [tasks |-> ManagerCompleted(reg, mid), agents |-> agents, count |-> count,
     selected |-> sel, yielded |-> out, pc |-> "done"]

\* Variant that yields the selected task whatever its status.
HierRoundYieldsAlways(reg, mid, agents, count, sel, out, ins) ==
    IF ins.kind = "failure" THEN HierEnds(reg, mid, agents, count, sel, out)
    ELSE IF ins.kind = "none"
    THEN [tasks |-> reg, agents |-> agents, count |-> count, selected |-> sel,
          yielded |-> out, pc |-> "raised"]
    ELSE IF IsStop(ins.action) THEN HierEnds(reg, mid, agents, count, ins.task_id, out)
    ELSE IF ins.task_id \notin DOMAIN reg
    THEN HierEnds(reg, mid, agents, count, ins.task_id, out)
    ELSE [tasks |-> reg, agents |-> Reassigned(agents, ins.task_id, ins.agent_name),
          count |-> count, selected |-> ins.task_id,
          yielded |-> Append(out, ins.task_id), pc |-> "hier_yielded"]

\* One pass through the body of the while loop, down to the yield or to the
\* end of the body, on the answer ins.
HierRound(reg, mid, agents, count, sel, out, ins) ==
    IF ins.kind = "failure" THEN HierEnds(reg, mid, agents, count, sel, out)
    ELSE IF ins.kind = "none"
    THEN [tasks |-> reg, agents |-> agents, count |-> count, selected |-> sel,
          yielded |-> out, pc |-> "raised"]
    ELSE IF IsStop(ins.action) THEN HierEnds(reg, mid, agents, count, ins.task_id, out)
    ELSE IF ins.task_id \notin DOMAIN reg
    THEN HierEnds(reg, mid, agents, count, ins.task_id, out)
    ELSE IF reg[ins.task_id].status # "completed"
    THEN [tasks |-> reg, agents |-> Reassigned(agents, ins.task_id, ins.agent_name),
          count |-> count, selected |-> ins.task_id,
          yielded |-> Append(out, ins.task_id), pc |-> "hier_yielded"]
    ELSE [tasks |-> reg, agents |-> Reassigned(agents, ins.task_id, ins.agent_name),
          count |-> count + 1, selected |-> ins.task_id,
          yielded |-> out, pc |-> "hier_loop"]

\* manager_task = Task(name="manager_task", ...); the generator yields it.
HierStart ==
    /\ pc = "hier_init"
    /\ pc' = "hier_manager_yielded"
    /\ UNCHANGED << tasks, yielded, manager_task, completed_count, total_tasks,
                    selected_task_id, task_agent, instructions >>
    /\ UNCHANGED hier_unchanged

\* The caller puts the manager task into the registry under a new id and
\* sends the id back.
HierCallerRegisters ==
    /\ pc = "hier_manager_yielded"
    /\ tasks' = Append(tasks, Task("manager_task", "task", "not started", << >>, << >>,
                                   FALSE, "", << "Decide the order of tasks" >>))
    /\ task_agent' = Append(task_agent, "Manager")
    /\ manager_task' = Len(tasks) + 1
    /\ pc' = "hier_manager_sent"
    /\ UNCHANGED << yielded, completed_count, total_tasks, selected_task_id, instructions >>
    /\ UNCHANGED hier_unchanged

\* completed_count = 0; total_tasks = len(self.tasks) - 1
HierBegin ==
    /\ pc = "hier_manager_sent"
    /\ completed_count' = 0
    /\ total_tasks' = Len(tasks) - 1
    /\ pc' = "hier_loop"
    /\ UNCHANGED << tasks, yielded, manager_task, selected_task_id, task_agent,
                    instructions >>
    /\ UNCHANGED hier_unchanged

\* while completed_count < total_tasks: one round, on any answer of the
\* decision service. The number of yields of a run is kept to HierYields.
HierDecide ==
    /\ pc = "hier_loop"
    /\ completed_count < total_tasks
    /\ \E ins \in Responses(tasks) :
          /\ Len(HierRound(tasks, manager_task, task_agent, completed_count,
                           selected_task_id, yielded, ins).yielded) <= HierYields
          /\ instructions' = << ins >>
          /\ tasks' = HierRound(tasks, manager_task, task_agent, completed_count,
                                selected_task_id, yielded, ins).tasks
          /\ task_agent' = HierRound(tasks, manager_task, task_agent, completed_count,
                                     selected_task_id, yielded, ins).agents
          /\ completed_count' = HierRound(tasks, manager_task, task_agent, completed_count,
                                          selected_task_id, yielded, ins).count
          /\ selected_task_id' = HierRound(tasks, manager_task, task_agent, completed_count,
                                           selected_task_id, yielded, ins).selected
          /\ yielded' = HierRound(tasks, manager_task, task_agent, completed_count,
                                  selected_task_id, yielded, ins).yielded
          /\ pc' = HierRound(tasks, manager_task, task_agent, completed_count,
                             selected_task_id, yielded, ins).pc
    /\ UNCHANGED << manager_task, total_tasks >>
    /\ UNCHANGED hier_unchanged

\* The caller, while the generator is suspended on a task id: it may write
\* any status to the yielded task.
HierCallerExecutes ==
    /\ pc = "hier_yielded"
    /\ \E st \in Statuses : tasks' = [tasks EXCEPT ![selected_task_id].status = st]
    /\ pc' = "hier_resumed"
    /\ UNCHANGED << yielded, manager_task, completed_count, total_tasks, selected_task_id,
                    task_agent, instructions >>
    /\ UNCHANGED hier_unchanged

\* if self.tasks[selected_task_id].status == "completed": completed_count += 1
HierResume ==
    /\ pc = "hier_resumed"
    /\ completed_count' = IF tasks[selected_task_id].status = "completed"
                          THEN completed_count + 1 ELSE completed_count
    /\ pc' = "hier_loop"
    /\ UNCHANGED << tasks, yielded, manager_task, total_tasks, selected_task_id,
                    task_agent, instructions >>
    /\ UNCHANGED hier_unchanged

\* The while condition fails: the manager task is completed and the generator ends.
HierLoopEnds ==
    /\ pc = "hier_loop"
    /\ ~(completed_count < total_tasks)
    /\ tasks' = ManagerCompleted(tasks, manager_task)
    /\ pc' = "done"
    /\ UNCHANGED << yielded, manager_task, completed_count, total_tasks, selected_task_id,
                    task_agent, instructions >>
    /\ UNCHANGED hier_unchanged

HierNext ==
    \/ HierStart
    \/ HierCallerRegisters
    \/ HierBegin
    \/ HierDecide
    \/ HierCallerExecutes
    \/ HierResume
    \/ HierLoopEnds

\* A Process on HierTasks regular tasks, each not started or completed,
\* hierarchical() not yet run.
HierInit ==
    /\ \E st \in [1..HierTasks -> {"not started", "completed"}] :
          tasks = [i \in 1..HierTasks |->
                      Task(TaskName(i), "task", st[i], << >>, << >>, FALSE, "", << "do" >>)]
    /\ task_retry_counter = [i \in DOMAIN tasks |-> 0]
    /\ fs = [p \in Paths |-> Unreadable]
    /\ max_iter = 0
    /\ NoRunYet
    /\ pc = "hier_init"

HierSpec == HierInit /\ [][HierNext]_vars

\* ------------------------------------------------- the asynchronous driver
\* aworkflow() up to the while loop: previous_tasks and the start task, and
\* nothing else. [tasks, start_task]
AsyncSetup(reg) ==
    [tasks |-> BuildPrevious(reg, 1, 1),
     start_task |-> FindStartTask(BuildPrevious(reg, 1, 1))]

\* The first anext() on the generator: aworkflow() down to the while loop.
AStart ==
    /\ pc = "init"
    /\ SetUp(AsyncSetup(tasks))
    /\ current_iter' = 0
    /\ visited_tasks' = {}
    /\ loop_data' = << >>
    /\ pc' = "head"
    /\ returned' = Grown(returned, tasks')
    /\ UNCHANGED << max_iter, fs, declared, yielded, exit_met, nav_from, via_condition,
                    selector_failed >>
    /\ UNCHANGED mode_vars

\* An iteration of aworkflow() on a task that is not a loop task, up to
\* `yield task_id`: the context is appended, no source is read.
AYieldTask ==
    /\ pc = "head"
    /\ ~ExceedsMaxIter(current_iter + 1, max_iter)
    /\ tasks[current_task].task_type # "loop"
    /\ current_iter' = current_iter + 1
    /\ tasks' = AppendContext(tasks, current_task)
    /\ yielded' = Append(yielded, current_task)
    /\ pc' = "yielded"
    /\ UNCHANGED << task_retry_counter, max_iter, fs, current_task, start_task,
                    visited_tasks, loop_data, declared, exit_met, nav_from, via_condition,
                    selector_failed, returned >>
    /\ UNCHANGED mode_vars

\* A whole iteration of aworkflow() on a loop task: nothing is yielded.
AVisitLoopTask ==
    /\ pc = "head"
    /\ ~ExceedsMaxIter(current_iter + 1, max_iter)
    /\ tasks[current_task].task_type = "loop"
    /\ current_iter' = current_iter + 1
    /\ EndIteration(
          LoopIteration(AppendContext(tasks, current_task), task_retry_counter,
                        current_task, loop_data),
          tasks, 0)
    /\ UNCHANGED << max_iter, fs, start_task, loop_data, declared, yielded >>
    /\ UNCHANGED mode_vars

\* The rest of aworkflow() is the code of workflow().
AsyncNext ==
    \/ AStart
    \/ MaxIterReached
    \/ AYieldTask
    \/ AVisitLoopTask
    \/ CallerExecutes
    \/ Resume

AsyncSpec == Init /\ [][AsyncNext]_vars

\* --------------------------------------------------- workflow() called again
\* The largest number of workflow() runs on one Process.
MaxRuns == 2
\* max_iter of the Processes that are run again.
RerunIter == 3

\* The caller calls workflow() again on the same Process after the earlier
\* generator has finished: a new generator, whose locals Start will set; the
\* Process keeps self.tasks and self.task_retry_counter. The record of what
\* the generator yielded and navigated starts anew.
CallAgain ==
    /\ pc = "done"
    /\ earlier_runs + 1 < MaxRuns
    /\ earlier_runs' = earlier_runs + 1
    /\ pc' = "init"
    /\ yielded' = << >>
    /\ exit_met' = FALSE
    /\ nav_from' = 0
    /\ via_condition' = 0
    /\ UNCHANGED << tasks, task_retry_counter, max_iter, fs, current_iter, current_task,
                    start_task, visited_tasks, loop_data, declared, selector_failed,
                    returned, seq_next, manager_task, completed_count, total_tasks,
                    selected_task_id, task_agent, instructions >>

RerunNext ==
    \/ Start
    \/ MaxIterReached
    \/ YieldTask
    \/ CallerFollowsContract
    \/ Resume
    \/ CallAgain

\* Processes on registries without loop tasks, all tasks 'not started'.
RerunInit ==
    /\ Constructed({"not started"}, {RerunIter})
    /\ \A i \in DOMAIN tasks : tasks[i].task_type # "loop"

RerunSpec == RerunInit /\ [][RerunNext]_vars

\* --------------------------------------------------------------- properties
Last(s) == s[Len(s)]

Min(a, b) == IF a < b THEN a ELSE b

\* The generator has returned, or ended by raising.
Terminated == pc \in {"done", "raised"}

\* The loop body has run at most max_iter times and has yielded at most once
\* per run; the pass that exceeds max_iter only leaves the loop; and a
\* generator that has not terminated stands at a task, where it or the caller
\* can take the next step.
C1_Bounded ==
    /\ current_iter <= max_iter + 1
    /\ (current_iter = max_iter + 1 => pc = "done")
    /\ Len(yielded) <= Min(current_iter, max_iter)
    /\ pc \in {"init", "head", "yielded", "resumed", "done", "raised"}
    /\ pc \in {"head", "yielded", "resumed"} => current_task \in DOMAIN tasks

\* How far the generator stands within the iteration it is in.
C1_Stage ==
    CASE pc = "init" -> 4
      [] pc = "head" -> 3
      [] pc = "yielded" -> 5
      [] pc = "resumed" -> 4
      [] OTHER -> 0

\* A natural number that every step of the generator or the caller decreases.
C1_Measure == 3 * (max_iter + 1 - current_iter) + C1_Stage

\* C1: for every registry with at least one task, every max_iter >= 0 and
\* every behaviour of the caller, the generator runs at most max_iter loop
\* iterations and yields at most max_iter task ids; every step strictly
\* decreases a natural-number measure, so that, the caller resuming it, the
\* generator terminates.
C1_Terminates ==
    /\ []C1_Bounded
    /\ [](C1_Measure >= 0)
    /\ [][C1_Measure' < C1_Measure]_vars

\* A run that used up its iterations, yielding in each of them.
C1_Witness ==
    /\ pc = "done"
    /\ max_iter = MaxIter
    /\ current_iter = max_iter + 1
    /\ Len(yielded) = max_iter

\* Every task's next_tasks[0] names an existing task.
Cyclic(reg) ==
    \A i \in DOMAIN reg :
        /\ reg[i].next_tasks # << >>
        /\ \E j \in DOMAIN reg : reg[j].name = reg[i].next_tasks[1]

\* No condition entry is an exit condition.
NoExitCondition(reg) ==
    \A i \in DOMAIN reg : \A k \in DOMAIN reg[i].condition :
        /\ reg[i].condition[k].value.items # << >>
        /\ reg[i].condition[k].value.items[1] \notin {"", "exit"}

NoLoopTask(reg) == \A i \in DOMAIN reg : reg[i].task_type # "loop"

\* C2 as stated: on a cyclic graph with no exit condition a run that stops
\* has yielded exactly max_iter task ids.
C2_CycleYieldsMaxIter ==
    (Cyclic(declared) /\ NoExitCondition(declared) /\ pc = "done")
        => Len(yielded) = max_iter

\* C2: on a cyclic graph with no exit condition and no loop task the
\* generator yields one task id in every iteration, never raises, and stops
\* only at the iteration limit, having yielded exactly max_iter ids.
C2_LooplessCycleYieldsMaxIter ==
    (Cyclic(declared) /\ NoExitCondition(declared) /\ NoLoopTask(declared))
        => /\ pc # "raised"
           /\ pc = "done" => (current_iter = max_iter + 1 /\ Len(yielded) = max_iter)
           /\ pc # "done" => Len(yielded) = current_iter

\* A two-task cycle run to the limit, both tasks yielded.
C2_Witness ==
    /\ Cyclic(declared) /\ NoExitCondition(declared) /\ NoLoopTask(declared)
    /\ pc = "done"
    /\ max_iter = MaxIter
    /\ Len(yielded) = max_iter
    /\ yielded[1] # yielded[2]

\* C3 as stated: once a decision task's matched condition is "" or "exit"
\* the run terminates and the generator yields nothing further, whatever
\* next_tasks or 'not started' tasks there are.
C3_ExitEndsTheRun == [][exit_met' => (pc' = "done" /\ yielded' = yielded)]_vars

\* The registry position of the task called name, 0 when there is none.
Named(reg, name) ==
    LET ids == {i \in DOMAIN reg : reg[i].name = name}
    IN  IF ids = {} THEN 0 ELSE CHOOSE i \in ids : \A j \in ids : i <= j

\* The first entry of task cur's condition table whose key is the label
\* (both compared in lower case), 0 when there is none.
EntryFor(reg, cur, label) ==
    LET keys == {k \in DOMAIN reg[cur].condition : Lower(reg[cur].condition[k].key) = label}
    IN  IF keys = {} THEN 0 ELSE CHOOSE k \in keys : \A j \in keys : k <= j

\* The existing task that entry maps the label to, 0 when there is none.
ConditionTarget(reg, cur, label) ==
    IF EntryFor(reg, cur, label) = 0 THEN 0
    ELSE IF reg[cur].condition[EntryFor(reg, cur, label)].value.items = << >> THEN 0
    ELSE Named(reg, reg[cur].condition[EntryFor(reg, cur, label)].value.items[1])

\* Task cur carries a result without a structured decision.
HasRawResult(reg, cur) ==
    /\ cur \in DOMAIN reg
    /\ ~IsNone(reg[cur].result)
    /\ IsNone(reg[cur].result[1].pydantic)

\* Task cur carries a result with a structured decision.
HasDecision(reg, cur) ==
    /\ cur \in DOMAIN reg
    /\ ~IsNone(reg[cur].result)
    /\ ~IsNone(reg[cur].result[1].pydantic)

\* The existing task B that decision task cur's raw result text selects: the
\* text equals, case-insensitively, a condition key mapped to B (0: none).
C4_Target(reg, cur) ==
    IF HasRawResult(reg, cur) /\ reg[cur].task_type = "decision"
    THEN ConditionTarget(reg, cur, Lower(reg[cur].result[1].raw))
    ELSE 0

\* C4 as stated: after such a result the next task the generator yields is
\* B: the next iteration, if there is one and it does not raise, yields B.
C4_ConditionTargetIsYieldedNext ==
    [][(/\ pc = "head" /\ C4_Target(tasks, nav_from) # 0 /\ current_iter < max_iter
        /\ pc' # "raised")
          => yielded' = Append(yielded, C4_Target(tasks, nav_from))]_vars

\* C4: when a decision task's result has no structured decision and its raw
\* text equals, case-insensitively, a condition key mapped to an existing
\* task B, the generator moves on to B whatever next_tasks[0] is and without
\* consulting the Fallback Selector; B is the next task yielded if B is not a
\* loop task and an iteration is left.
C4_ConditionTargetIsNext ==
    [][/\ (pc = "resumed" /\ C4_Target(tasks, current_task) # 0)
            => /\ pc' = "head"
               /\ current_task' = C4_Target(tasks, current_task)
               /\ task_retry_counter' = task_retry_counter
               /\ returned' = returned
               /\ selector_failed' = selector_failed
       /\ (/\ pc = "head" /\ C4_Target(tasks, nav_from) # 0 /\ current_iter < max_iter
           /\ tasks[C4_Target(tasks, nav_from)].task_type # "loop")
            => yielded' = Append(yielded, C4_Target(tasks, nav_from))]_vars

\* B has been yielded right after the decision task, although next_tasks[0]
\* names another task and a 'not started' task exists.
C4_Witness ==
    /\ pc = "yielded"
    /\ Len(yielded) >= 2
    /\ yielded[Len(yielded) - 1] = nav_from
    /\ C4_Target(tasks, nav_from) = Last(yielded)
    /\ tasks[nav_from].next_tasks # << >>
    /\ Named(tasks, tasks[nav_from].next_tasks[1]) \notin {0, Last(yielded)}
    /\ \E i \in DOMAIN tasks : tasks[i].status = "not started"

\* Decision task cur's raw result text equals no condition key but contains one.
C5_Contained(reg, cur) ==
    /\ HasRawResult(reg, cur)
    /\ reg[cur].task_type = "decision"
    /\ EntryFor(reg, cur, Lower(reg[cur].result[1].raw)) = 0
    /\ \E k \in DOMAIN reg[cur].condition :
          Contains(Lower(reg[cur].result[1].raw), Lower(reg[cur].condition[k].key))

\* The existing task the first contained key is mapped to, 0 when there is none.
C5_ContainedTarget(reg, cur) ==
    LET c == reg[cur].condition
        keys == {k \in DOMAIN c : Contains(Lower(reg[cur].result[1].raw), Lower(c[k].key))}
        first == CHOOSE k \in keys : \A j \in keys : k <= j
    IN  IF c[first].value.items = << >> THEN 0 ELSE Named(reg, c[first].value.items[1])

\* No condition fires for task cur: navigation goes to next_tasks[0] when it
\* names an existing task, and else to what the Fallback Selector returns.
FallsThrough(cur) ==
    /\ via_condition' = 0
    /\ exit_met' = exit_met
    /\ pc' # "raised"
    /\ IF tasks[cur].next_tasks # << >> /\ Named(tasks, tasks[cur].next_tasks[1]) # 0
       THEN /\ current_task' = Named(tasks, tasks[cur].next_tasks[1])
            /\ returned' = returned
       ELSE \/ current_task' = 0 /\ pc' = "done" /\ returned' = returned
            \/ /\ current_task' \in DOMAIN tasks
               /\ returned'[current_task'] = returned[current_task'] + 1

\* C5 as stated: a raw result text that contains a condition key without
\* being equal to it ("all done" for "done") also takes the generator to the
\* task that key is mapped to.
C5_ContainedLabelMatches ==
    [][(/\ pc = "resumed" /\ C5_Contained(tasks, current_task)
        /\ C5_ContainedTarget(tasks, current_task) # 0)
          => current_task' = C5_ContainedTarget(tasks, current_task)]_vars

\* C5: a raw result text that contains a condition key without being equal
\* to it ("all done" for "done") matches no condition: the generator goes to
\* next_tasks[0] when that names a task, and else to the Fallback Selector.
C5_ContainedLabelDoesNotMatch ==
    [][(pc = "resumed" /\ C5_Contained(tasks, current_task))
          => FallsThrough(current_task)]_vars

\* After "all done" the generator stands at a task other than the one the
\* key "done" is mapped to.
C5_Witness ==
    /\ pc = "head"
    /\ C5_Contained(tasks, nav_from)
    /\ tasks[nav_from].result[1].raw = "all done"
    /\ C5_ContainedTarget(tasks, nav_from) \notin {0, current_task}

\* C6: when a decision or loop task's result carries a structured decision,
\* the lower-cased decision alone is compared with the condition keys: the
\* entry it equals is followed even if the raw text equals another key, and
\* if it equals none no condition fires even if the raw text equals a key.
C6_DecisionTakesPrecedence ==
    [][(/\ pc = "resumed" /\ HasDecision(tasks, current_task)
        /\ tasks[current_task].task_type \in {"decision", "loop"})
          => LET t == tasks[current_task]
                 e == EntryFor(tasks, current_task, Lower(t.result[1].pydantic[1]))
                 b == ConditionTarget(tasks, current_task, Lower(t.result[1].pydantic[1]))
             IN  IF e = 0 THEN FallsThrough(current_task)
                 ELSE IF t.condition[e].value.items = << >> THEN pc' = "raised"
                 ELSE IF t.condition[e].value.items[1] \in {"", "exit"}
                      THEN exit_met' /\ via_condition' = 0
                 ELSE IF b # 0
                      THEN pc' = "head" /\ current_task' = b /\ via_condition' = b
                 ELSE FallsThrough(current_task)]_vars

\* The raw text equals one key and the structured decision another, mapped
\* to a different task, and the generator stands at the decision's task.
C6_Witness ==
    /\ pc = "head"
    /\ HasDecision(tasks, nav_from)
    /\ tasks[nav_from].task_type = "decision"
    /\ ConditionTarget(tasks, nav_from, Lower(tasks[nav_from].result[1].raw)) # 0
    /\ ConditionTarget(tasks, nav_from, Lower(tasks[nav_from].result[1].pydantic[1]))
          = current_task
    /\ ConditionTarget(tasks, nav_from, Lower(tasks[nav_from].result[1].raw))
          # current_task

\* Decision task cur's matched condition maps to cur's own name.
C7_SelfTarget(reg, cur) ==
    /\ cur \in DOMAIN reg
    /\ ~IsNone(reg[cur].result)
    /\ reg[cur].task_type = "decision"
    /\ cur = ConditionTarget(reg, cur,
                Lower(IF IsNone(reg[cur].result[1].pydantic) THEN reg[cur].result[1].raw
                      ELSE reg[cur].result[1].pydantic[1]))

\* C7: a decision task whose matched condition maps to its own name stays
\* the current task and is yielded again in the next iteration, whatever
\* its status and whether or not it is in the visited set, if an iteration
\* is left.
C7_SelfLoopRevisits ==
    [][/\ (pc = "resumed" /\ C7_SelfTarget(tasks, current_task))
            => (pc' = "head" /\ current_task' = current_task)
       /\ (pc = "head" /\ C7_SelfTarget(tasks, nav_from) /\ current_iter < max_iter)
            => yielded' = Append(yielded, nav_from)]_vars

\* The same completed decision task yielded twice in a row.
C7_Witness ==
    /\ pc = "yielded"
    /\ Len(yielded) >= 2
    /\ yielded[Len(yielded) - 1] = nav_from
    /\ Last(yielded) = nav_from
    /\ C7_SelfTarget(tasks, nav_from)
    /\ tasks[nav_from].status = "completed"

\* The selector meets task i in its pass: no task before i is eligible.
C8_Encountered(i) ==
    \A j \in 1..(i - 1) :
        ~(tasks[j].status = "not started" /\ task_retry_counter[j] < DEFAULT_RETRY_LIMIT)

\* C8: across all calls of the Fallback Selector on one Process, whatever
\* statuses are written in between, no task is returned more than
\* DEFAULT_RETRY_LIMIT (3) times, every retry counter stays within 0..3, and
\* when the selector meets a 'not started' task already returned 3 times it
\* marks the task 'failed' and does not return it.
C8_RetryCap ==
    /\ [](\A i \in DOMAIN tasks :
            /\ returned[i] <= DEFAULT_RETRY_LIMIT
            /\ task_retry_counter[i] \in 0..DEFAULT_RETRY_LIMIT)
    /\ [][pc' = "selected" =>
            \A i \in DOMAIN tasks :
                (/\ tasks[i].status = "not started"
                 /\ returned[i] = DEFAULT_RETRY_LIMIT
                 /\ C8_Encountered(i))
                  => /\ tasks'[i].status = "failed"
                     /\ current_task' # i
                     /\ returned'[i] = returned[i]]_vars

\* A task returned three times and then marked 'failed' by a fourth call,
\* which returned the task after it.
C8_Witness ==
    /\ pc = "selected"
    /\ returned[1] = DEFAULT_RETRY_LIMIT
    /\ 1 \in selector_failed
    /\ tasks[1].status = "failed"
    /\ current_task = 2

\* C9 as stated: a task the Fallback Selector has marked 'failed' is never
\* yielded again, not even when another task's next_tasks[0] or matched
\* condition names it.
C9_FailedNeverYielded ==
    pc = "yielded" => Last(yielded) \notin selector_failed

\* Every declared task is a regular task and already 'completed'.
C10_AllCompleted ==
    \A i \in DOMAIN declared :
        declared[i].status = "completed" /\ declared[i].task_type = "task"

\* The declared start task: the first one marked is_start, else the first.
C10_StartTask ==
    LET marked == {i \in DOMAIN declared : declared[i].is_start}
    IN  IF marked = {} THEN 1 ELSE CHOOSE i \in marked : \A j \in marked : i <= j

\* C10 as stated: on a registry of regular tasks that are all 'completed'
\* the generator yields no task id.
C10_CompletedRegistryYieldsNothing == C10_AllCompleted => yielded = << >>

\* C10: on a registry of regular tasks that are all 'completed' the
\* generator still yields the start task in its first iteration, whatever
\* the status (it yields nothing only if max_iter = 0), and a yielded task
\* that is 'completed' on resumption does not stay 'completed'.
C10_CompletedStartIsYielded ==
    /\ [](C10_AllCompleted =>
            /\ (max_iter >= 1 /\ current_iter >= 1)
                  => (Len(yielded) >= 1 /\ yielded[1] = C10_StartTask)
            /\ max_iter = 0 => yielded = << >>)
    /\ [][(/\ C10_AllCompleted /\ pc = "resumed"
           /\ tasks[current_task].status = "completed")
            => tasks'[current_task].status # "completed"]_vars

\* The start task of such a registry yielded while 'completed', then reset.
C10_Witness ==
    /\ C10_AllCompleted
    /\ pc \in {"head", "done"}
    /\ yielded = << C10_StartTask >>
    /\ nav_from = C10_StartTask
    /\ tasks[C10_StartTask].status = "not started"
    /\ tasks[C10_StartTask].result # None

\* C11: sequential() yields task ids in registry order, each at most once
\* even if the caller leaves the task not completed or failed; it yields
\* exactly the tasks that are not 'completed' when the traversal reaches
\* them, so that a task the caller completes before its turn is passed; it
\* ends after the last task; and it writes to no task.
C11_SequentialTraversal ==
    /\ [](\A k \in 1..(Len(yielded) - 1) : yielded[k] < yielded[k + 1])
    /\ [](pc = "done" => seq_next = Len(tasks) + 1)
    /\ [][seq_next' # seq_next /\ seq_next \in DOMAIN tasks =>
            /\ seq_next' = seq_next + 1
            /\ yielded' = IF tasks[seq_next].status # "completed"
                          THEN Append(yielded, seq_next) ELSE yielded]_vars
    /\ [][yielded' # yielded => seq_next' # seq_next]_vars
    /\ [][tasks' # tasks => (pc = "seq_yielded" /\ pc' = "seq_yielded")]_vars

\* A finished traversal that yielded the first task, left 'failed' and not
\* retried, passed the second, which the caller completed before its turn,
\* and yielded the third.
C11_Witness ==
    /\ pc = "done"
    /\ yielded = << 1, 3 >>
    /\ declared[2].status = "not started"
    /\ tasks[1].status = "failed"

\* The declared start task is a loop task read from a comma-separated source
\* that can be read.
C12_CsvLoopStart ==
    /\ declared[C10_StartTask].task_type = "loop"
    /\ declared[C10_StartTask].input_file \in {"", "tasks.csv"}
    /\ fs["tasks.csv"].readable

\* The positions of the non-empty rows of the source, and how many they are.
C12_Rows == {i \in DOMAIN fs["tasks.csv"].rows : fs["tasks.csv"].rows[i] # << >>}

\* The i-th subtask of the start loop task: the tasks after the declared ones.
C12_Subtask(i) == tasks[Len(declared) + i]

\* The list stored under key in a condition table.
CondValue(cond, key) ==
    (CHOOSE k \in {e \in DOMAIN cond : cond[e].key = key} : TRUE)

\* <loop>_i
C12_Name(i) == declared[C10_StartTask].name \o "_" \o Str(i)

\* What C12 says of every subtask but the "done" entry of the last one.
C12_Chain ==
    /\ Len(tasks) = Len(declared) + Cardinality(C12_Rows)
    /\ \A i \in 1..Cardinality(C12_Rows) :
          /\ C12_Subtask(i).name = C12_Name(i)
          /\ C12_Subtask(i).task_type = "decision"
          /\ C12_Subtask(i).is_start = (i = 1)
          /\ i < Cardinality(C12_Rows) =>
                /\ C12_Subtask(i).next_tasks = << C12_Name(i + 1) >>
                /\ C12_Subtask(i).condition[CondValue(C12_Subtask(i).condition, "done")].value
                      = CondList(<< C12_Name(i + 1) >>)
          /\ i = Cardinality(C12_Rows) =>
                C12_Subtask(i).next_tasks = declared[C10_StartTask].next_tasks
    /\ current_task = Len(declared) + 1

\* The first task handed to the caller is <loop>_1.
C12_FirstYield ==
    (C12_CsvLoopStart /\ Cardinality(C12_Rows) >= 1 /\ yielded # << >>)
      => (yielded[1] = Len(declared) + 1 /\ tasks[yielded[1]].name = C12_Name(1))

\* The "done" entry of the last subtask.
C12_LastDone ==
    C12_Subtask(Cardinality(C12_Rows)).condition[
        CondValue(C12_Subtask(Cardinality(C12_Rows)).condition, "done")].value

\* The workflow has been set up and has not started its first iteration.
C12_JustExpanded ==
    /\ C12_CsvLoopStart
    /\ Cardinality(C12_Rows) >= 1
    /\ pc = "head"
    /\ current_iter = 0

\* C12 as stated: the last subtask's condition["done"] is the loop task's
\* original next_tasks.
C12_LastDoneIsNextTasks ==
    /\ C12_FirstYield
    /\ C12_JustExpanded
         => (C12_Chain /\ C12_LastDone = CondList(declared[C10_StartTask].next_tasks))

\* C12: author-time expansion of a start loop task from a comma-separated
\* source with n >= 1 non-empty rows adds exactly n subtasks <loop>_1 ..
\* <loop>_n, of type decision, is_start only on <loop>_1; <loop>_i for i < n
\* has next_tasks and condition["done"] [<loop>_(i+1)]; <loop>_n has the
\* loop's original next_tasks, and its condition["done"] is that list when it
\* is not empty and ["next"] when it is; the first task yielded is <loop>_1;
\* empty rows create nothing and take no index.
C12_AuthorTimeExpansion ==
    /\ C12_FirstYield
    /\ C12_JustExpanded
      => /\ C12_Chain
         /\ C12_LastDone = CondList(IF declared[C10_StartTask].next_tasks # << >>
                                    THEN declared[C10_StartTask].next_tasks
                                    ELSE << "next" >>)

\* Two subtasks made from a source whose rows are both non-empty, the first
\* of them yielded, the loop task having a successor.
C12_Witness ==
    /\ C12_CsvLoopStart
    /\ Cardinality(C12_Rows) = MaxRows
    /\ declared[C10_StartTask].next_tasks # << >>
    /\ pc = "yielded"
    /\ current_iter = 1
    /\ tasks[Last(yielded)].name = C12_Name(1)
    /\ Len(tasks) = Len(declared) + MaxRows

\* The loop tasks expanded while the run was under way: not the start task,
\* and marked as having their subtasks.
C13_RuntimeLoops ==
    {l \in DOMAIN declared : /\ tasks[l].task_type = "loop"
                             /\ l # C10_StartTask
                             /\ tasks[l].subtasks_created}

\* The subtasks made for loop task l, by registry position.
C13_Subtasks(l) ==
    {t \in DOMAIN tasks : t > Len(declared) /\ StartsWith(tasks[t].name, declared[l].name \o "_")}

\* The last subtask of l was yielded, the caller has completed it, and the
\* successor S that l was declared with is a task of the registry.
C13_LastSubtaskCompleted(l) ==
    /\ pc = "resumed"
    /\ l \in C13_RuntimeLoops
    /\ current_task \in C13_Subtasks(l)
    /\ \A t \in C13_Subtasks(l) : t <= current_task
    /\ tasks[current_task].status = "completed"
    /\ Len(declared[l].next_tasks) = 1
    /\ \E s \in DOMAIN tasks : tasks[s].name = declared[l].next_tasks[1]

\* Navigation from the completed last subtask leads to S, and the Fallback
\* Selector is not asked.
C13_ReturnsToSuccessor ==
    [][\A l \in DOMAIN declared :
          C13_LastSubtaskCompleted(l)
            => /\ current_task' # 0
               /\ tasks'[current_task'].name = declared[l].next_tasks[1]
               /\ returned' = returned]_vars

\* The subtasks of a loop task expanded at run time carry the indices 1 .. n.
C13_ConsecutiveNames ==
    \A l \in C13_RuntimeLoops :
       {tasks[t].name : t \in C13_Subtasks(l)}
         = {declared[l].name \o "_" \o Str(i) : i \in 1..Cardinality(C13_Subtasks(l))}

\* C13: after the caller completes the last subtask of a loop task L expanded
\* at run time, L having been declared with next_tasks = [S], the driver's
\* navigation leads to S without asking the Fallback Selector; and the
\* subtasks of L are named <L>_1 .. <L>_n with consecutive indices.
C13_LastSubtaskLeadsToSuccessor ==
    C13_ReturnsToSuccessor /\ []C13_ConsecutiveNames

\* The decision service has just answered with a stop, in some letter case.
C14_Stopped ==
    /\ instructions # << >>
    /\ instructions[1].kind = "parsed"
    /\ Lower(instructions[1].action) = "stop"

\* The statuses of the tasks other than the manager task.
C14_Statuses(reg) == [i \in DOMAIN reg \ {manager_task} |-> reg[i].status]

\* C14: in hierarchical mode an answer with action "stop", in any letter
\* case, ends the run: the task it names is not yielded, nothing is yielded
\* afterwards, no agent is reassigned and no task other than the manager
\* task changes status, whatever the named task's status and whether or not
\* its id is in the registry.
C14_StopEndsTheRun ==
    /\ [](C14_Stopped => pc = "done")
    /\ [][C14_Stopped' /\ ~C14_Stopped
            => /\ yielded' = yielded
               /\ task_agent' = task_agent
               /\ C14_Statuses(tasks') = C14_Statuses(tasks)]_vars
    /\ [][C14_Stopped => UNCHANGED vars]_vars

\* A stop in upper case naming a task that is not completed, after a task
\* was run.
C14_Witness ==
    /\ C14_Stopped
    /\ pc = "done"
    /\ instructions[1].action = "STOP"
    /\ instructions[1].task_id \in 1..HierTasks
    /\ tasks[instructions[1].task_id].status = "not started"
    /\ instructions[1].agent_name # task_agent[instructions[1].task_id]
    /\ instructions[1].agent_name \in Agents
    /\ Len(yielded) = 1

\* The decision loop ended because its condition failed: a break leaves
\* completed_count below total_tasks.
C15_EndedByCount == pc = "done" /\ manager_task # 0 /\ completed_count >= total_tasks

\* C15: when the hierarchical decision loop ends because completed_count has
\* reached the number of non-manager tasks, every non-manager task of the
\* registry is 'completed', whatever tasks the decision service chose.
C15_CountedMeansAllCompleted ==
    C15_EndedByCount
      => \A i \in DOMAIN tasks \ {manager_task} : tasks[i].status = "completed"

\* The answer of the round just taken was a failure of the decision service,
\* an answer without a parsed body, or instructions naming an id that is not
\* in the registry.
C16_Halting(ins, reg) ==
    \/ ins.kind \in {"failure", "none"}
    \/ ins.kind = "parsed" /\ ins.task_id \notin DOMAIN reg

\* C16: when the decision service fails, answers with something that is not
\* instructions, or names an id that is not in the registry, the hierarchical
\* loop halts in that round: the generator ends without raising, nothing more
\* is yielded, and every non-manager task keeps its status and its agent.
C16_FailureHaltsQuietly ==
    [][(instructions' # instructions /\ C16_Halting(instructions'[1], tasks))
          => /\ pc' = "done"
             /\ yielded' = yielded
             /\ task_agent' = task_agent
             /\ C14_Statuses(tasks') = C14_Statuses(tasks)]_vars

\* C17: the workflow driver never ends by raising an exception into the
\* caller, whatever the registry, the loop input sources and the caller do.
C17_NeverRaises == pc # "raised"

\* The path the driver reads for loop task l.
C20_Source(l) == IF tasks[l].input_file = "" THEN "tasks.csv" ELSE tasks[l].input_file

\* The driver is about to visit a loop task whose source cannot be read.
C20_VisitsUnreadable ==
    /\ pc = "head"
    /\ current_task # 0
    /\ tasks[current_task].task_type = "loop"
    /\ ~fs[C20_Source(current_task)].readable

\* C20: a loop task whose input source is missing or unreadable gets no
\* subtask and is never yielded; when the driver visits it, the loop task is
\* marked 'completed' and the run goes on to the loop task's successor, or
\* ends cleanly if it has none.
C20_UnreadableSourceDegrades ==
    /\ [](\A k \in DOMAIN yielded : tasks[yielded[k]].task_type # "loop")
    /\ [](C20_VisitsUnreadable
            => \A t \in DOMAIN tasks :
                  ~StartsWith(tasks[t].name, tasks[current_task].name \o "_"))
    /\ [][(C20_VisitsUnreadable /\ current_iter' = current_iter + 1)
            => /\ pc' # "raised"
               /\ Len(tasks') = Len(tasks)
               /\ tasks'[current_task].status = "completed"
               /\ IF FindByName(tasks, IF tasks[current_task].next_tasks = << >> THEN ""
                                       ELSE tasks[current_task].next_tasks[1]) # 0
                  THEN current_task' = FindByName(tasks, tasks[current_task].next_tasks[1])
                  ELSE pc' = "done"]_vars

\* Task i is neither a loop task, nor a decision task, nor named after a
\* loop task of the registry as its subtasks are.
C19_Regular(i) ==
    /\ tasks[i].task_type # "loop"
    /\ tasks[i].task_type # "decision"
    /\ \A l \in DOMAIN tasks :
          tasks[l].task_type = "loop"
            => ~StartsWith(tasks[i].name, tasks[l].name \o "_")

\* C19: the driver takes a task from 'completed' to 'not started' only when
\* the yield of that task resumes, and only if the task is not a loop task,
\* not a decision task and not named '<L.name>_...' after a loop task L; and
\* every such task that is 'completed' when its yield resumes is reset to
\* 'not started' before the next task is chosen (the Fallback Selector may
\* then mark it 'failed' while choosing).
C19_ResetOnlyRegular ==
    /\ [][\A i \in DOMAIN tasks :
             (pc # "yielded" /\ tasks[i].status = "completed"
                /\ tasks'[i].status = "not started")
               => (pc = "resumed" /\ i = current_task /\ C19_Regular(i))]_vars
    /\ [][(pc = "resumed" /\ tasks[current_task].status = "completed"
             /\ C19_Regular(current_task))
            => \/ tasks'[current_task].status = "not started"
               \/ /\ tasks'[current_task].status = "failed"
                  /\ current_task \in selector_failed']_vars
    /\ [][\A i \in DOMAIN tasks :
             (pc # "yielded" /\ tasks[i].status = "completed" /\ ~C19_Regular(i))
               => tasks'[i].status = "completed"]_vars

\* A regular task that the caller completed stands reset, next to a subtask
\* of a loop task that the caller completed and that stays completed.
C19_Witness ==
    /\ pc = "head"
    /\ \E i \in DOMAIN tasks :
          /\ C19_Regular(i)
          /\ ~IsNone(tasks[i].result)
          /\ tasks[i].status = "not started"
    /\ \E j \in DOMAIN tasks :
          /\ j > Len(declared)
          /\ ~C19_Regular(j)
          /\ ~IsNone(tasks[j].result)
          /\ tasks[j].status = "completed"

\* The fields of a task that C18 compares.
C18_Fields(t) ==
    << t.name, t.status, t.next_tasks, t.condition, t.description >>

\* Two registries hold the same tasks in the same state.
C18_SameRegistry(a, b) ==
    /\ Len(a) = Len(b)
    /\ \A i \in DOMAIN a : i \in DOMAIN b /\ C18_Fields(a[i]) = C18_Fields(b[i])

\* C18: aworkflow() behaves as workflow() does. Step by step, under the
\* asynchronous driver: the set-up leaves the registry and the first task
\* that workflow()'s set-up leaves, and an iteration that yields leaves the
\* registry that workflow()'s iteration leaves from the same state, and so
\* does the visit of a loop task.
C18_AsyncBehavesAsSync ==
    /\ [][(pc = "init" /\ pc' # "init")
            => /\ C18_SameRegistry(tasks', WorkflowSetup(tasks, fs).tasks)
               /\ current_task' = WorkflowSetup(tasks, fs).start_task]_vars
    /\ [][(pc = "head" /\ pc' = "yielded")
            => C18_SameRegistry(tasks', Prepared(tasks, current_task, start_task, fs))]_vars
    /\ [][(pc = "head" /\ tasks[current_task].task_type = "loop"
             /\ current_iter' = current_iter + 1 /\ pc' # "yielded"
             /\ ~ExceedsMaxIter(current_iter + 1, max_iter))
            => C18_SameRegistry(
                  tasks',
                  LoopIteration(Prepared(tasks, current_task, start_task, fs),
                                Grown(task_retry_counter,
                                      Prepared(tasks, current_task, start_task, fs)),
                                current_task, loop_data).tasks)]_vars

\* The tasks the expansions have added to the registry.
C21_Generated == {t \in DOMAIN tasks : t > Len(declared)}

\* C21: a loop task is expanded at most once in a run, so the registry never
\* holds two generated tasks of the same name <loop>_<i>, and a visit to a
\* loop task that already has generated subtasks adds no task.
C21_ExpandedAtMostOnce ==
    /\ [](\A s, t \in C21_Generated : tasks[s].name = tasks[t].name => s = t)
    /\ [][(pc = "head" /\ current_task # 0 /\ tasks[current_task].task_type = "loop"
             /\ \E t \in C21_Generated :
                   StartsWith(tasks[t].name, tasks[current_task].name \o "_"))
            => Len(tasks') = Len(tasks)]_vars

\* C22: the engine marks a task 'failed' only if the task never left
\* 'not started': a task the caller has completed (it carries the result the
\* caller stored) is never marked 'failed', and the step that resumes the
\* yield of a task the caller has just completed does not leave it 'failed'.
C22_FailedOnlyIfNeverRun ==
    /\ [][\A i \in DOMAIN tasks :
             (pc # "yielded" /\ tasks[i].status # "failed" /\ tasks'[i].status = "failed")
               => IsNone(tasks[i].result)]_vars
    /\ [][(pc = "resumed" /\ tasks[current_task].status = "completed")
            => tasks'[current_task].status # "failed"]_vars

\* C23: the workflow driver never yields a loop task: the id it yields is
\* that of the current task, whose type is not loop at that moment.
C23_LoopTaskNeverYielded ==
    /\ [](\A k \in DOMAIN yielded : tasks[yielded[k]].task_type # "loop")
    /\ [][yielded' # yielded
            => /\ yielded' = Append(yielded, current_task)
               /\ tasks[current_task].task_type # "loop"
               /\ tasks'[current_task].task_type # "loop"]_vars

\* A loop task has been visited in the second iteration and expanded, and
\* the driver has gone on from it to its first subtask without yielding it.
C23_Witness ==
    /\ pc = "head"
    /\ nav_from # 0
    /\ tasks[nav_from].task_type = "loop"
    /\ tasks[nav_from].subtasks_created
    /\ current_iter = 2
    /\ Len(yielded) = 1
    /\ yielded[1] # nav_from
    /\ current_task > Len(declared)

\* The tasks named after loop task l as its subtasks are.
C24_Subtasks(l) ==
    {t \in DOMAIN tasks : StartsWith(tasks[t].name, tasks[l].name \o "_")}

\* The driver is about to visit an expanded loop task whose subtasks are all
\* 'completed'.
C24_VisitsFinishedLoop ==
    /\ pc = "head"
    /\ current_task # 0
    /\ ~ExceedsMaxIter(current_iter + 1, max_iter)
    /\ tasks[current_task].task_type = "loop"
    /\ tasks[current_task].subtasks_created
    /\ C24_Subtasks(current_task) # {}
    /\ \A t \in C24_Subtasks(current_task) : tasks[t].status = "completed"

\* C24: visiting an expanded loop task L whose subtasks are all 'completed',
\* the driver marks L 'completed' and goes on to the task S that
\* L.next_tasks[0] names, which is the task the next iteration starts with;
\* when L has no next_tasks the Fallback Selector is asked.
C24_FinishedLoopAdvances ==
    [][C24_VisitsFinishedLoop
         => /\ tasks'[current_task].status = "completed"
            /\ (tasks[current_task].next_tasks # << >>
                  /\ FindByName(tasks, tasks[current_task].next_tasks[1]) # 0)
                 => current_task' = FindByName(tasks, tasks[current_task].next_tasks[1])
            /\ tasks[current_task].next_tasks = << >>
                 => returned' # returned \/ current_task' = 0]_vars

\* Task i can be returned by the selector.
C25_Eligible(i) ==
    tasks[i].status = "not started" /\ task_retry_counter[i] < DEFAULT_RETRY_LIMIT

\* The first task of the registry that can be returned (0: none).
C25_First ==
    IF \E i \in DOMAIN tasks : C25_Eligible(i)
    THEN CHOOSE i \in DOMAIN tasks :
            C25_Eligible(i) /\ \A j \in 1..(i - 1) : ~C25_Eligible(j)
    ELSE 0

\* The tasks the selector passes before it returns: all of them when it
\* returns none.
C25_Passed == IF C25_First = 0 THEN DOMAIN tasks ELSE 1..(C25_First - 1)

\* C25: one call of the Fallback Selector returns the first task in registry
\* order that is 'not started' with a retry counter below the limit and adds
\* 1 to that counter alone; the 'not started' tasks before it are marked
\* 'failed'; every other task and every other counter stays as it is. With
\* no such task it returns none and marks every 'not started' task 'failed'.
C25_SelectorReturnsFirstEligible ==
    [][pc' = "selected"
         => /\ current_task' = C25_First
            /\ task_retry_counter' =
                  [i \in DOMAIN tasks |-> IF i = C25_First THEN task_retry_counter[i] + 1
                                          ELSE task_retry_counter[i]]
            /\ tasks' = [i \in DOMAIN tasks |->
                            IF i \in C25_Passed /\ tasks[i].status = "not started"
                            THEN [tasks[i] EXCEPT !.status = "failed"]
                            ELSE tasks[i]]]_vars

\* The selector has returned the second task for the third time, passing a
\* first task it marked 'failed' on the way.
C25_Witness ==
    /\ pc = "selected"
    /\ current_task = 2
    /\ task_retry_counter = << DEFAULT_RETRY_LIMIT, DEFAULT_RETRY_LIMIT >>
    /\ tasks[1].status = "failed"
    /\ tasks[2].status = "not started"

\* The yield of a decision task has resumed, the label the caller left
\* equals a condition key, and that entry's value is an empty list.
C26_LabelMapsToEmptyList ==
    /\ pc = "resumed"
    /\ tasks[current_task].task_type = "decision"
    /\ ~IsNone(tasks[current_task].result)
    /\ \E e \in DOMAIN tasks[current_task].condition :
          /\ Lower(tasks[current_task].condition[e].key)
                = (IF IsNone(tasks[current_task].result[1].pydantic)
                   THEN Lower(tasks[current_task].result[1].raw)
                   ELSE Lower(tasks[current_task].result[1].pydantic[1]))
          /\ \A f \in 1..(e - 1) :
                Lower(tasks[current_task].condition[f].key)
                   # Lower(tasks[current_task].condition[e].key)
          /\ tasks[current_task].condition[e].value.is_list
          /\ tasks[current_task].condition[e].value.items = << >>

\* C26: a condition entry whose value is an empty list, like the "exit": []
\* that author-time expansion gives every subtask, is an exit condition: when
\* the decision label equals its key the run ends cleanly, with no exception
\* and no further yield.
C26_EmptyListIsExit ==
    [][C26_LabelMapsToEmptyList => (pc' = "done" /\ yielded' = yielded)]_vars

\* The decision label of task cur's result, in lower case.
C27_Label(cur) ==
    IF IsNone(tasks[cur].result[1].pydantic)
    THEN Lower(tasks[cur].result[1].raw)
    ELSE Lower(tasks[cur].result[1].pydantic[1])

\* The condition table of task cur is consulted and the label equals a key.
C27_Matched(cur) ==
    /\ tasks[cur].task_type \in {"decision", "loop"}
    /\ ~IsNone(tasks[cur].result)
    /\ EntryFor(tasks, cur, C27_Label(cur)) # 0

\* The matched entry of task cur names a task that is not in the registry.
C27_UnresolvedCondition(cur) ==
    /\ C27_Matched(cur)
    /\ tasks[cur].condition[EntryFor(tasks, cur, C27_Label(cur))].value.items # << >>
    /\ tasks[cur].condition[EntryFor(tasks, cur, C27_Label(cur))].value.items[1]
          \notin {"", "exit"}
    /\ Named(tasks,
             tasks[cur].condition[EntryFor(tasks, cur, C27_Label(cur))].value.items[1]) = 0

\* No condition applies to task cur and its next_tasks[0] names no task.
C27_UnresolvedNext(cur) ==
    /\ ~C27_Matched(cur)
    /\ tasks[cur].next_tasks # << >>
    /\ Named(tasks, tasks[cur].next_tasks[1]) = 0

\* C27: a name that resolves to no task is no successor and no error. When
\* the matched condition names a task that does not exist the navigator does
\* not raise and goes to next_tasks[0]; when next_tasks[0] names no task
\* either, or is the only name and names none, the Fallback Selector chooses
\* the next task, and the run ends only if it returns none, which leaves no
\* task 'not started'.
C27_UnresolvedNameIsNoSuccessor ==
    [][(pc = "resumed"
          /\ (C27_UnresolvedCondition(current_task) \/ C27_UnresolvedNext(current_task)))
         => /\ FallsThrough(current_task)
            /\ current_task' = 0
                 => \A i \in DOMAIN tasks' : tasks'[i].status # "not started"]_vars

\* The generator stands at a task the Fallback Selector returned after the
\* label of a generated subtask matched "done": ["next"], a name no task has.
C27_Witness ==
    /\ pc = "head"
    /\ nav_from > Len(declared)
    /\ tasks[nav_from].task_type = "decision"
    /\ tasks[nav_from].next_tasks = << >>
    /\ ~IsNone(tasks[nav_from].result)
    /\ tasks[nav_from].result[1] = Result("Done", None)
    /\ via_condition = 0
    /\ current_task # 0
    /\ returned[current_task] = 1

RECURSIVE C28_Lines(_, _, _)
\* One "<name>: <raw result>" line for each of the names from position i on
\* that is a task with a result, the task called own left out.
C28_Lines(names, i, own) ==
    IF i > Len(names) THEN ""
    ELSE (IF names[i] # own /\ Named(tasks, names[i]) # 0
             /\ ~IsNone(tasks[Named(tasks, names[i])].result)
          THEN "\n" \o names[i] \o ": " \o tasks[Named(tasks, names[i])].result[1].raw
          ELSE "")
         \o C28_Lines(names, i + 1, own)

\* The driver starts an iteration on a task that has predecessors.
C28_VisitsWithPredecessors ==
    /\ pc = "head"
    /\ current_task # 0
    /\ current_iter' = current_iter + 1
    /\ ~ExceedsMaxIter(current_iter + 1, max_iter)
    /\ tasks[current_task].previous_tasks # << >>

\* C28: each visit to a task with predecessors appends one context block to
\* its description: the heading and one "<name>: <raw result>" line for each
\* predecessor that has a result, never a line with the task's own result;
\* what the description held stays, and no other task's description changes.
C28_ContextBlockPerVisit ==
    [][C28_VisitsWithPredecessors
         => /\ tasks'[current_task].description
                  = Append(tasks[current_task].description,
                           "\nInput data from previous tasks:"
                             \o C28_Lines(tasks[current_task].previous_tasks, 1,
                                          tasks[current_task].name))
            /\ \A i \in DOMAIN tasks \ {current_task} :
                  tasks'[i].description = tasks[i].description]_vars

\* The declared start task is not a loop task.
C29_PlainStart == declared[C10_StartTask].task_type # "loop"

\* C29: workflow() starts at the first task marked is_start in registry
\* order, or at the first task when none is marked (a loop start task may be
\* replaced by the first subtask created from it); a start task that is not a
\* loop task is the current task of the first iteration and the first id
\* yielded, whatever its status.
C29_StartsAtStartTask ==
    /\ [](C29_PlainStart /\ yielded # << >> => yielded[1] = C10_StartTask)
    /\ [][pc = "init"
            => \/ current_task' = C10_StartTask
               \/ ~C29_PlainStart /\ current_task' > Len(declared)]_vars
    /\ [][pc = "head" /\ current_iter = 0 /\ C29_PlainStart
          /\ ~ExceedsMaxIter(1, max_iter)
            => yielded' = << C10_StartTask >>]_vars

\* Two tasks both marked is_start and both 'completed': the first was yielded.
C29_Witness ==
    /\ Len(declared) = 2
    /\ \A i \in 1..2 : declared[i].is_start /\ declared[i].status = "completed"
    /\ C29_PlainStart
    /\ yielded = << 1 >>
    /\ pc = "yielded"

\* hierarchical() before its while loop: no decision has been requested.
C30_BeforeLoop == pc \in {"hier_init", "hier_manager_yielded", "hier_manager_sent"}

\* C30: hierarchical() first yields the manager task, once, before any
\* decision is requested and before any id is yielded; every id yielded later
\* is selected by the decision of that round, is in the registry and is not
\* 'completed' when it is yielded, and a round yields at most one id.
C30_ManagerFirstThenOpenTasks ==
    /\ [](C30_BeforeLoop => yielded = << >> /\ instructions = << >>)
    /\ [][pc' = "hier_manager_yielded" => pc = "hier_init"]_vars
    /\ [][pc # "hier_init" => pc' # "hier_init"]_vars
    /\ [][yielded' # yielded
            => /\ pc = "hier_loop" /\ pc' = "hier_yielded"
               /\ instructions' # << >>
               /\ instructions'[1].task_id \in DOMAIN tasks
               /\ yielded' = Append(yielded, instructions'[1].task_id)
               /\ tasks'[instructions'[1].task_id].status # "completed"]_vars

\* A second id yielded, the manager task's own, still not 'completed'.
C30_Witness ==
    /\ pc = "hier_yielded"
    /\ Len(yielded) = 2
    /\ yielded[2] = manager_task
    /\ tasks[manager_task].status # "completed"

\* The step leaves the decision loop of hierarchical().
C31_LoopEnds == pc = "hier_loop" /\ pc' \notin {"hier_loop", "hier_yielded"}

\* C31: however the hierarchical decision loop ends, the generator finishes
\* without raising and with the manager task 'completed'.
C31_ManagerCompletedOnEveryExit ==
    [][C31_LoopEnds
         => pc' = "done" /\ tasks'[manager_task].status = "completed"]_vars

\* What the driver never writes on a task.
C32_Kept(t) ==
    [name |-> t.name, task_type |-> t.task_type, result |-> t.result,
     is_start |-> t.is_start, context |-> t.context]

\* The step is taken by workflow(), not by its caller.
C32_DriverStep == pc # "yielded"

\* C32: a step of workflow() removes no task and leaves the name, the type,
\* the result and the agent of every existing task as they were (it writes
\* only status, next_tasks, condition, description, previous_tasks,
\* input_file and _subtasks_created); the loop-progress map is always empty.
C32_DriverFrame ==
    /\ [](loop_data = << >>)
    /\ [][C32_DriverStep
            => /\ Len(tasks') >= Len(tasks)
               /\ \A i \in DOMAIN tasks : C32_Kept(tasks'[i]) = C32_Kept(tasks[i])
               /\ task_agent' = task_agent]_vars

\* A resumption on a completed task with a result is finished and the
\* registry has grown by loop expansion: the result is as the caller wrote it.
C32_Witness ==
    /\ pc = "head"
    /\ current_iter >= 1
    /\ nav_from # 0
    /\ ~IsNone(tasks[nav_from].result)
    /\ Len(tasks) > Len(declared)

\* The declared registry is a straight-line chain of regular tasks: every
\* task but the last names another task as its only successor, and nothing
\* leads back to the start task.
C33_Chain ==
    /\ \A i \in DOMAIN declared :
          /\ declared[i].task_type = "task"
          /\ \/ declared[i].next_tasks = << >>
             \/ \E j \in DOMAIN declared \ {i} :
                   declared[i].next_tasks = << declared[j].name >>
    /\ Cardinality({i \in DOMAIN declared : declared[i].next_tasks = << >>}) = 1
    /\ \A i \in DOMAIN declared :
          declared[i].next_tasks # << declared[C10_StartTask].name >>

\* The caller has completed every task yielded and resumed so far.
C33_CallerCompletes ==
    \A k \in 1..Len(yielded) :
        (k < Len(yielded) \/ pc # "yielded") => ~IsNone(tasks[yielded[k]].result)

\* C33: on a straight-line chain of regular tasks whose caller completes
\* every yielded task, no task id is yielded twice: the Fallback Selector
\* does not offer again a task that was executed and reset.
C33_ChainYieldsEachTaskOnce ==
    C33_Chain /\ C33_CallerCompletes
        => \A k, l \in 1..Len(yielded) : yielded[k] = yielded[l] => k = l

\* What a call of the Fallback Selector would give in this state.
C34_Call == FindNextNotStartedTask(tasks, task_retry_counter)

\* What its first sweep alone would give.
C34_FirstSweep == Sweep(tasks, task_retry_counter, 1)

\* C34: a call of the Fallback Selector gives what its first sweep gives (the
\* later sweeps find nothing new), and when it returns none it leaves no
\* task 'not started'; so a workflow run that ends because the selector
\* returned none ends with no 'not started' task.
C34_NoneMeansNothingLeft ==
    /\ C34_Call.ret = C34_FirstSweep.ret
    /\ C34_Call.tasks = C34_FirstSweep.tasks
    /\ C34_Call.ret = 0
          => \A i \in DOMAIN tasks : C34_Call.tasks[i].status # "not started"
    /\ (pc = "done" /\ current_task = 0)
          => \A i \in DOMAIN tasks : tasks[i].status # "not started"

\* A run ended by the selector returning none after it marked a task 'failed'.
C34_Witness ==
    /\ pc = "done"
    /\ current_task = 0
    /\ selector_failed # {}
    /\ \E i \in DOMAIN tasks : tasks[i].status = "failed"

\* A second workflow() run on the Process stands before its first iteration.
C35_SecondRunBegins == earlier_runs >= 1 /\ pc = "head" /\ current_iter = 0

\* C35: a second workflow() run on the same Process begins with every retry
\* counter at zero, so that the Fallback Selector would return then what it
\* returns on a fresh Process with the same registry.
C35_CountersArePerRun ==
    C35_SecondRunBegins
        => /\ \A i \in DOMAIN tasks : task_retry_counter[i] = 0
           /\ FindNextNotStartedTask(tasks, task_retry_counter).ret
                 = FindNextNotStartedTask(tasks, [i \in DOMAIN tasks |-> 0]).ret

====
